---- MODULE Spec2Model ----
(***************************************************************************)
(* gopilot-cli: the agent execution engine.                                *)
(*                                                                         *)
(*   retry.Do            bounded exponential-backoff retry                 *)
(*   Summarizer          SummarizeMessages / createSummary                 *)
(*   Agent               NewAgent, AddUserMessage, Run                     *)
(*   BashTool            Execute in the foreground and in the background   *)
(*   BashOutputTool,     reading and killing background shells, with       *)
(*   BashKillTool        monitorShellOutput                                *)
(*                                                                         *)
(* Seven specifications share the module: SpecRetry drives one call of     *)
(* retry.Do, SpecSum one call of Summarizer.SummarizeMessages, Spec the    *)
(* agent (AddUserMessage, Run with its summarizer and the caller's         *)
(* cancellation), SpecCtor one call of NewAgent, SpecFg one foreground     *)
(* BashTool.Execute, SpecBg the background shells with their callers and   *)
(* monitors, and SpecLock the locks these threads take.                    *)
(***************************************************************************)
EXTENDS Integers, Sequences, FiniteSets, TLC

(***************************************************************************)
(* Bounds of the model.                                                    *)
(***************************************************************************)
\* largest Config.MaxRetries explored (the smallest is -1)
MaxRetriesBound == 3
\* largest Config.InitialDelay / Config.MaxDelay explored, in clock ticks
MaxDelayBound == 2
\* number of items (a user message, a final assistant message, or an assistant
\* message with its tool messages) after the system message of a history
\* handed to SummarizeMessages
MaxItems == 4
\* largest token limit explored
MaxTokenLimit == 24
\* largest Agent.maxSteps explored
MaxStepsBound == 2
\* largest number of tool calls in one model response
MaxToolCalls == 2
\* largest number of tool calls the model asks for in the course of one Run
MaxRunToolCalls == 3
\* number of AddUserMessage calls and of Run calls explored
MaxUserMsgs == 1
MaxRuns == 1
\* a further Run is explored only from a history of at most this length
MaxHistoryAtRun == 2

\* the default token limit of the configuration
DefaultTokenLimit == 80000
\* the timeout of a foreground command: its default and its range, in seconds
DefaultTimeout == 120
MaxTimeout == 600
MinTimeout == 1
\* how far around MinTimeout and MaxTimeout the requested timeouts reach
TimeoutSlack == 2
\* most background shells started, most lines one of them writes, most
\* calls of bash_output and bash_kill
MaxJobs == 2
MaxLines == 2
MaxBgOps == 2

VARIABLES
  \* ---- retry.Do ----
  cfg,          \* *retry.Config of the call
  hasOnRetry,   \* onRetry != nil
  failFirst,    \* the operation fn: its first failFirst invocations fail
  rpc,          \* position of Do: "idle", "start", "call", "wait", "done"
  attempt,      \* loop variable of Do
  invocations,  \* number of invocations of fn so far
  lastErr,      \* Do's lastErr (0 = nil, n = error of the n-th invocation)
  retries,      \* attempt numbers handed to onRetry, in order
  delay,        \* delay of the pending time.After
  elapsed,      \* clock ticks since the select began
  ctxDone,      \* ctx.Done() is closed
  firedInWait,  \* ctx was done while Do was blocked in its select
  ret,          \* what Do returned: [val, err]
  \* ---- Summarizer.SummarizeMessages ----
  tokenLimit,   \* Summarizer.tokenLimit (Agent.tokenLimit)
  encOK,        \* tiktoken.GetEncoding succeeds
  sumPc,        \* "idle", "call" (SummarizeMessages entered), "done"
  sumIn,        \* the messages handed to SummarizeMessages
  sumOuts,      \* round -> outcome of that round's summary call
  sumOut,       \* the messages SummarizeMessages returned
  sumCalls,     \* model calls made by SummarizeMessages
  \* ---- Agent ----
  messages,     \* Agent.messages
  maxSteps,     \* Agent.maxSteps
  apc,          \* position of Run: "idle", "loop", "generate", "tools",
                \* "done" (Run returned), "panicked" (Run panicked)
  step,         \* Run's step
  resp,         \* outcome of the last a.llm.Generate of Run
  tcIdx,        \* index of the tool call being processed
  runRet,       \* what Run returned: [val, err]
  modelCalls,   \* calls of a.llm.Generate made by this Run
  toolExecs,    \* calls of tool.Execute made by this Run
  asked,        \* tool calls the model has asked for in this Run
  lastTool,     \* how the last tool call of this Run came out
  allToolResp,  \* every model call of this Run succeeded and asked for a tool
  users,        \* AddUserMessage calls so far
  runs,         \* Run calls so far
  runCtxDone,   \* ctx.Done() of the Run in progress is closed
  \* ---- BashTool.Execute, foreground ----
  isWindows,    \* BashTool.isWindows
  fgArgs,       \* args of the call: [command, timeout]
  fgTimeout,    \* the timeout Execute applies, in seconds
  fgPc,         \* position of Execute: "idle", "call", "select", "kill",
                \* "wait", "reap", "store", "return", "done", "panicked"
  fgCause,      \* the select case taken: "none", "done", "cancel", "timeout"
  fgCtxDone,    \* ctx.Done() of the call is closed
  fgTimerFired, \* the channel of time.After(timeout) is ready
  fgErr,        \* Execute's err
  fgResult,     \* the *ToolResult Execute returned
  gPc,          \* the goroutine running cmd.Run: "none", "start", "wait",
                \* "reap", "store", "end"
  gState,       \* what the goroutine's c.Process.Wait() returned
  mState,       \* what Execute's own c.Process.Wait() returned
  cmdProcess,   \* cmd.Process != nil
  processState, \* cmd.ProcessState
  proc,         \* the subprocess: "none", "running", "exited", "reaped"
  procStatus,   \* how the subprocess ended: an exit code or "killed"
  selfExit,     \* the subprocess exited on its own
  doneCh,       \* the buffered channel done
  \* ---- background shells ----
  workload,     \* what the run is made of: how many shells are started, how
                \* many lines each writes, whether they end on their own,
                \* how many bash_output and bash_kill calls are made and by
                \* which threads
  jobs,         \* the BackgroundShells created so far, each with its
                \* subprocess, its pipe and its monitor
  shells,       \* globalShellManager.shells: id -> index into jobs
  callers,      \* per calling thread: the call it is in
  bgResult,     \* the result a call has just returned, with its tool
  bgOps,        \* calls of bash_output and bash_kill begun so far
  delivered,    \* per job: the lines handed to callers so far, in order
  filteredRead, \* per job: some read filtered its lines with a pattern
  \* ---- NewAgent ----
  naIn,         \* the arguments of NewAgent and what the file system allows
  naPc,         \* position of NewAgent: "idle", "call", "build", "logger",
                \* "done"
  naDir,        \* the workspace directory exists
  naOut,        \* what NewAgent returned: [agent, err]
  \* ---- the locks of the background shells ----
  regMu,        \* holder of BackgroundShellManager.mu ("" when free)
  shellMu,      \* per shell: holder of BackgroundShell.mu ("" when free)
  lt            \* per thread: the instructions it is executing, its
                \* position in them and the shell it works on

retryVars == <<cfg, hasOnRetry, failFirst, rpc, attempt, invocations, lastErr,
               retries, delay, elapsed, ctxDone, firedInWait, ret>>

sumVars == <<tokenLimit, encOK, sumPc, sumIn, sumOuts, sumOut, sumCalls>>

agentVars == <<messages, maxSteps, apc, step, resp, tcIdx, runRet, modelCalls,
               toolExecs, asked, lastTool, allToolResp, users, runs, runCtxDone>>

fgVars == <<isWindows, fgArgs, fgTimeout, fgPc, fgCause, fgCtxDone, fgTimerFired,
            fgErr, fgResult, gPc, gState, mState, cmdProcess, processState,
            proc, procStatus, selfExit, doneCh>>

bgVars == <<workload, jobs, shells, callers, bgResult, bgOps, delivered,
            filteredRead>>

bashVars == <<fgVars, bgVars>>

ctorVars == <<naIn, naPc, naDir, naOut>>

lockVars == <<regMu, shellMu, lt>>

otherVars == <<ctorVars, lockVars>>

vars == <<retryVars, sumVars, agentVars, bashVars, otherVars>>

(***************************************************************************)
(* retry.Do                                                                *)
(***************************************************************************)
NoErr == [kind |-> "nil", last |-> 0, attempts |-> 0]
\* the error of the n-th invocation of fn (n = 0: a nil error)
OpErr(n) == IF n = 0 THEN NoErr ELSE [kind |-> "op", last |-> n, attempts |-> 0]
\* ctx.Err() of a done context
CtxErr == [kind |-> "ctx", last |-> 0, attempts |-> 0]
NoRet == [val |-> "none", err |-> NoErr]

\* &ExhaustedError{LastError: lastErr, Attempts: attempt + 1}
ExhaustedError(le, att) == [kind |-> "exhausted", last |-> le, attempts |-> att + 1]

RECURSIVE Pow(_, _)
Pow(b, n) == IF n <= 0 THEN 1 ELSE b * Pow(b, n - 1)

\* a delay that is never capped by MaxDelay
CalculateDelay_noCap(c, att) == c.InitialDelay * Pow(c.ExponentialBase, att)

\* Config.CalculateDelay
CalculateDelay(c, att) ==
  LET d == c.InitialDelay * Pow(c.ExponentialBase, att)
  IN  IF d > c.MaxDelay THEN c.MaxDelay ELSE d

\* the loop condition of Do: attempt <= cfg.MaxRetries
LoopCond(c, att) == att <= c.MaxRetries

\* Do giving up one attempt early
IsLastAttempt_early(c, att) == att + 1 >= c.MaxRetries

\* the give-up test of Do: attempt >= cfg.MaxRetries
IsLastAttempt(c, att) == att >= c.MaxRetries

\* onRetry told the retries that remain instead of the attempt number
OnRetryArg_remaining(c, att) == c.MaxRetries - att

\* the attempt number Do hands to onRetry: onRetry(err, attempt+1)
OnRetryArg(c, att) == att + 1

\* the outcome of the n-th invocation of fn
FnFails(n) == n <= failFirst

Configs ==
  [Enabled : BOOLEAN,
   MaxRetries : -1 .. MaxRetriesBound,
   InitialDelay : 0 .. MaxDelayBound,
   MaxDelay : 1 .. MaxDelayBound,
   ExponentialBase : 1 .. 2]

RetryIdle ==
  /\ cfg = [Enabled |-> TRUE, MaxRetries |-> 0, InitialDelay |-> 0,
            MaxDelay |-> 1, ExponentialBase |-> 1]
  /\ hasOnRetry = FALSE
  /\ failFirst = 0
  /\ rpc = "idle"
  /\ attempt = 0
  /\ invocations = 0
  /\ lastErr = 0
  /\ retries = <<>>
  /\ delay = 0
  /\ elapsed = 0
  /\ ctxDone = FALSE
  /\ firedInWait = FALSE
  /\ ret = NoRet

\* Do has been called: any policy, any operation, ctx possibly done already
RetryInit ==
  /\ cfg \in Configs
  /\ hasOnRetry \in BOOLEAN
  /\ failFirst \in 0 .. MaxRetriesBound + 1
  /\ rpc = "start"
  /\ attempt = 0
  /\ invocations = 0
  /\ lastErr = 0
  /\ retries = <<>>
  /\ delay = 0
  /\ elapsed = 0
  /\ ctxDone \in BOOLEAN
  /\ firedInWait = FALSE
  /\ ret = NoRet

\* if !cfg.Enabled { return fn() }
DoDisabled ==
  /\ UNCHANGED <<sumVars, agentVars, bashVars, otherVars>>
  /\ rpc = "start"
  /\ ~cfg.Enabled
  /\ invocations' = invocations + 1
  /\ ret' = IF FnFails(invocations + 1)
              THEN [val |-> "zero", err |-> OpErr(invocations + 1)]
              ELSE [val |-> "ok", err |-> NoErr]
  /\ rpc' = "done"
  /\ UNCHANGED <<cfg, hasOnRetry, failFirst, attempt, lastErr, retries, delay,
                 elapsed, ctxDone, firedInWait>>

\* for attempt := 0; attempt <= cfg.MaxRetries; ...   (and the return after
\* a loop that never ran: return zero, lastErr)
DoEnterLoop ==
  /\ UNCHANGED <<sumVars, agentVars, bashVars, otherVars>>
  /\ rpc = "start"
  /\ cfg.Enabled
  /\ attempt' = 0
  /\ IF LoopCond(cfg, 0)
       THEN rpc' = "call" /\ ret' = ret
       ELSE rpc' = "done" /\ ret' = [val |-> "zero", err |-> OpErr(lastErr)]
  /\ UNCHANGED <<cfg, hasOnRetry, failFirst, invocations, lastErr, retries,
                 delay, elapsed, ctxDone, firedInWait>>

\* result, err := fn(); if err == nil { return result, nil }
DoInvokeOk ==
  /\ UNCHANGED <<sumVars, agentVars, bashVars, otherVars>>
  /\ rpc = "call"
  /\ ~FnFails(invocations + 1)
  /\ invocations' = invocations + 1
  /\ ret' = [val |-> "ok", err |-> NoErr]
  /\ rpc' = "done"
  /\ UNCHANGED <<cfg, hasOnRetry, failFirst, attempt, lastErr, retries, delay,
                 elapsed, ctxDone, firedInWait>>

\* fn failed on the last attempt: return zero, &ExhaustedError{...}
DoInvokeExhausted ==
  /\ UNCHANGED <<sumVars, agentVars, bashVars, otherVars>>
  /\ rpc = "call"
  /\ FnFails(invocations + 1)
  /\ IsLastAttempt(cfg, attempt)
  /\ invocations' = invocations + 1
  /\ lastErr' = invocations + 1
  /\ ret' = [val |-> "zero", err |-> ExhaustedError(invocations + 1, attempt)]
  /\ rpc' = "done"
  /\ UNCHANGED <<cfg, hasOnRetry, failFirst, attempt, retries, delay, elapsed,
                 ctxDone, firedInWait>>

\* fn failed, attempts remain: compute the delay, call onRetry(err, attempt+1)
\* and enter the select on ctx.Done() and time.After(delay)
DoInvokeRetry ==
  /\ UNCHANGED <<sumVars, agentVars, bashVars, otherVars>>
  /\ rpc = "call"
  /\ FnFails(invocations + 1)
  /\ ~IsLastAttempt(cfg, attempt)
  /\ invocations' = invocations + 1
  /\ lastErr' = invocations + 1
  /\ delay' = CalculateDelay(cfg, attempt)
  /\ retries' = IF hasOnRetry THEN Append(retries, OnRetryArg(cfg, attempt))
                             ELSE retries
  /\ elapsed' = 0
  /\ firedInWait' = ctxDone
  /\ rpc' = "wait"
  /\ UNCHANGED <<cfg, hasOnRetry, failFirst, attempt, ctxDone, ret>>

\* time passes while Do is blocked in the select
TimerTick ==
  /\ UNCHANGED <<sumVars, agentVars, bashVars, otherVars>>
  /\ rpc = "wait"
  /\ elapsed < delay
  /\ elapsed' = elapsed + 1
  /\ UNCHANGED <<cfg, hasOnRetry, failFirst, rpc, attempt, invocations,
                 lastErr, retries, delay, ctxDone, firedInWait, ret>>

\* case <-time.After(delay): the loop goes on with attempt++
SelectTimer ==
  /\ UNCHANGED <<sumVars, agentVars, bashVars, otherVars>>
  /\ rpc = "wait"
  /\ elapsed >= delay
  /\ attempt' = attempt + 1
  /\ IF LoopCond(cfg, attempt + 1)
       THEN rpc' = "call" /\ ret' = ret
       ELSE rpc' = "done" /\ ret' = [val |-> "zero", err |-> OpErr(lastErr)]
  /\ UNCHANGED <<cfg, hasOnRetry, failFirst, invocations, lastErr, retries,
                 delay, elapsed, ctxDone, firedInWait>>

\* case <-ctx.Done(): return zero, ctx.Err()
SelectCancel ==
  /\ UNCHANGED <<sumVars, agentVars, bashVars, otherVars>>
  /\ rpc = "wait"
  /\ ctxDone
  /\ ret' = [val |-> "zero", err |-> CtxErr]
  /\ rpc' = "done"
  /\ UNCHANGED <<cfg, hasOnRetry, failFirst, attempt, invocations, lastErr,
                 retries, delay, elapsed, ctxDone, firedInWait>>

\* the caller cancels ctx while Do is running
Cancel ==
  /\ UNCHANGED <<sumVars, agentVars, bashVars, otherVars>>
  /\ rpc \in {"start", "call", "wait"}
  /\ ~ctxDone
  /\ ctxDone' = TRUE
  /\ firedInWait' = (firedInWait \/ rpc = "wait")
  /\ UNCHANGED <<cfg, hasOnRetry, failFirst, rpc, attempt, invocations,
                 lastErr, retries, delay, elapsed, ret>>

Do ==
  \/ DoDisabled
  \/ DoEnterLoop
  \/ DoInvokeOk
  \/ DoInvokeExhausted
  \/ DoInvokeRetry
  \/ TimerTick
  \/ SelectTimer
  \/ SelectCancel
  \/ Cancel

(***************************************************************************)
(* schema.Message, tokenizer.EstimateTokens                                *)
(***************************************************************************)
Message(role, content, thinking, toolCalls, toolCallID, name) ==
  [Role |-> role, Content |-> content, Thinking |-> thinking,
   ToolCalls |-> toolCalls, ToolCallID |-> toolCallID, Name |-> name]

SystemMessage(c) == Message("system", c, "", <<>>, "", "")
UserMessage(c) == Message("user", c, "", <<>>, "", "")
AssistantMessage(c, th, tcs) == Message("assistant", c, th, tcs, "", "")
ToolMessage(c, id, name) == Message("tool", c, "", <<>>, id, name)

\* schema.ToolCall; ArgsOK: the arguments hold every required key with the
\* type the tool asserts
ToolCall(id, name, argsOK) == [ID |-> id, Name |-> name, ArgsOK |-> argsOK]

\* fmt.Sprintf("%v", m.ToolCalls)
RECURSIVE FormatToolCalls(_)
FormatToolCalls(tcs) ==
  IF tcs = <<>> THEN ""
  ELSE LET tc == Head(tcs)
           one == "{" \o tc.ID \o " function {" \o tc.Name \o
                  (IF tc.ArgsOK THEN " map[path:f]}}" ELSE " map[]}}")
       IN  IF Len(tcs) = 1 THEN one ELSE one \o " " \o FormatToolCalls(Tail(tcs))

\* len(enc.Encode(text, nil, nil)): the number of cl100k_base tokens of text,
\* taken as one token per four bytes
Encode(text) == (Len(text) + 3) \div 4

\* countTokens
countTokens(text) == IF text = "" THEN 0 ELSE Encode(text)

\* the per-message term of EstimateTokens
MessageTokens(m) ==
  countTokens(m.Content) + countTokens(m.Thinking)
    + (IF Len(m.ToolCalls) > 0
         THEN Encode("[" \o FormatToolCalls(m.ToolCalls) \o "]") ELSE 0)
    + 4

\* the per-message term of EstimateTokensFallback
MessageChars(m) ==
  Len(m.Content) + Len(m.Thinking)
    + (IF Len(m.ToolCalls) > 0
         THEN Len("[" \o FormatToolCalls(m.ToolCalls) \o "]") ELSE 0)

RECURSIVE TotalChars(_)
TotalChars(msgs) ==
  IF msgs = <<>> THEN 0 ELSE MessageChars(Head(msgs)) + TotalChars(Tail(msgs))

RECURSIVE TotalTokens(_)
TotalTokens(msgs) ==
  IF msgs = <<>> THEN 0 ELSE MessageTokens(Head(msgs)) + TotalTokens(Tail(msgs))

\* EstimateTokensFallback: int(float64(total) / 2.5)
EstimateTokensFallback(msgs) == (2 * TotalChars(msgs)) \div 5

\* EstimateTokens
EstimateTokens(msgs, enc) ==
  IF enc THEN TotalTokens(msgs) ELSE EstimateTokensFallback(msgs)

(***************************************************************************)
(* Summarizer.SummarizeMessages                                            *)
(***************************************************************************)
\* what the model call of createSummary can come to: an error, or a response
\* with one of these contents
Summaries == {"s1", "s2"}
SummaryFailed == "FAIL"
SummaryOutcomes == Summaries \cup {SummaryFailed}

\* the synthetic message that replaces the execution messages of a round
SummaryPrefix == "[Execution Summary]\n\n"

\* a summary message without its marker
SummaryMessage_bare(summary) == UserMessage(summary)

SummaryMessage(summary) == UserMessage(SummaryPrefix \o summary)

\* userIdx: the indices of the user messages after the first message
RECURSIVE UserIdxFrom(_, _)
UserIdxFrom(msgs, i) ==
  IF i > Len(msgs) THEN <<>>
  ELSE IF i > 1 /\ msgs[i].Role = "user"
         THEN <<i>> \o UserIdxFrom(msgs, i + 1)
         ELSE UserIdxFrom(msgs, i + 1)

UserIdx(msgs) == UserIdxFrom(msgs, 1)

\* end: where round i stops (exclusive)
RoundEnd(msgs, userIdx, i) ==
  IF i < Len(userIdx) THEN userIdx[i + 1] ELSE Len(msgs) + 1

\* a round whose execution messages begin at its own user message
ExecMsgs_fromUser(msgs, userIdx, i) ==
  SubSeq(msgs, userIdx[i], RoundEnd(msgs, userIdx, i) - 1)

\* execMsgs := messages[ui+1 : end]
ExecMsgs(msgs, userIdx, i) ==
  SubSeq(msgs, userIdx[i] + 1, RoundEnd(msgs, userIdx, i) - 1)

\* a summarizer that also rewrites a history exactly at the limit
WithinLimit_strict(tokens, limit) == tokens < limit

\* the over-budget test of SummarizeMessages: tokens <= s.tokenLimit returns
WithinLimit(tokens, limit) == tokens <= limit

\* a failed summary call that takes the round's user message away as well
OnSummaryError_dropRound(acc, exec) == SubSeq(acc, 1, Len(acc) - 1)

\* what SummarizeMessages does with a round whose summary call failed
OnSummaryError(acc, exec) == acc

\* the rounds loop of SummarizeMessages, from round i on; acc is newMsgs and
\* calls the number of createSummary calls made so far
RECURSIVE SummarizeRounds(_, _, _, _, _, _)
SummarizeRounds(msgs, userIdx, i, outs, acc, calls) ==
  IF i > Len(userIdx) THEN [msgs |-> acc, calls |-> calls]
  ELSE
    LET withUser == Append(acc, msgs[userIdx[i]])
        exec == ExecMsgs(msgs, userIdx, i)
    IN  IF Len(exec) = 0
          THEN SummarizeRounds(msgs, userIdx, i + 1, outs, withUser, calls)
        ELSE IF outs[i] = SummaryFailed
          THEN SummarizeRounds(msgs, userIdx, i + 1, outs,
                               OnSummaryError(withUser, exec), calls + 1)
        ELSE SummarizeRounds(msgs, userIdx, i + 1, outs,
                             Append(withUser, SummaryMessage(outs[i])),
                             calls + 1)

\* a SummarizeMessages that rebuilds the history without messages[0]
SummarizeMessages_dropHead(msgs, limit, enc, outs) ==
  IF WithinLimit(EstimateTokens(msgs, enc), limit)
    THEN [msgs |-> msgs, calls |-> 0]
  ELSE IF Len(UserIdx(msgs)) = 0
    THEN [msgs |-> msgs, calls |-> 0]
  ELSE SummarizeRounds(msgs, UserIdx(msgs), 1, outs, <<>>, 0)

\* Summarizer.SummarizeMessages: the returned messages and the number of model
\* calls made; outs[i] is the outcome of the summary call of round i
SummarizeMessages(msgs, limit, enc, outs) ==
  IF WithinLimit(EstimateTokens(msgs, enc), limit)
    THEN [msgs |-> msgs, calls |-> 0]
  ELSE IF Len(UserIdx(msgs)) = 0
    THEN [msgs |-> msgs, calls |-> 0]
  ELSE SummarizeRounds(msgs, UserIdx(msgs), 1, outs, <<msgs[1]>>, 0)

\* the rounds for which SummarizeMessages calls createSummary
RoundsWithCall(msgs, limit, enc) ==
  IF WithinLimit(EstimateTokens(msgs, enc), limit) THEN {}
  ELSE {i \in 1 .. Len(UserIdx(msgs)) : Len(ExecMsgs(msgs, UserIdx(msgs), i)) > 0}

\* the pieces a history is made of: a user turn, the summary message of an
\* earlier summarization, a final assistant message, one step of Run with one
\* tool call, one step with two
HistoryItems ==
  { <<UserMessage("hi")>>,
    <<UserMessage("[Execution Summary]\n\ns1")>>,
    <<AssistantMessage("done", "", <<>>)>>,
    <<AssistantMessage("", "t", <<ToolCall("c1", "bash", TRUE)>>),
      ToolMessage("out", "c1", "bash")>>,
    <<AssistantMessage("a", "", <<ToolCall("c1", "read_file", TRUE),
                                  ToolCall("c2", "nope", FALSE)>>),
      ToolMessage("Error: File not found: f", "c1", "read_file"),
      ToolMessage("Error: Unknown tool: nope", "c2", "nope")>> }

RECURSIVE HistoryBodies(_)
HistoryBodies(n) ==
  IF n = 0 THEN {<<>>}
  ELSE LET shorter == HistoryBodies(n - 1)
       IN  shorter \cup {b \o it : b \in shorter, it \in HistoryItems}

Histories == {<<SystemMessage("sys")>> \o b : b \in HistoryBodies(MaxItems)}

SumIdle ==
  /\ tokenLimit = 0
  /\ encOK = TRUE
  /\ sumPc = "idle"
  /\ sumIn = <<>>
  /\ sumOuts = <<>>
  /\ sumOut = <<>>
  /\ sumCalls = 0

\* SummarizeMessages has been called on some history with some limit
SumInit ==
  /\ tokenLimit \in 0 .. MaxTokenLimit
  /\ encOK \in BOOLEAN
  /\ sumPc = "call"
  /\ sumIn \in Histories
  /\ sumOuts = <<>>
  /\ sumOut = <<>>
  /\ sumCalls = 0

\* one call of SummarizeMessages, its summary calls coming out as outs
Summarize ==
  /\ UNCHANGED <<retryVars, agentVars, bashVars, otherVars>>
  /\ sumPc = "call"
  /\ \E outs \in [RoundsWithCall(sumIn, tokenLimit, encOK) -> SummaryOutcomes] :
       LET r == SummarizeMessages(sumIn, tokenLimit, encOK, outs)
       IN  /\ sumOuts' = outs
           /\ sumOut' = r.msgs
           /\ sumCalls' = r.calls
  /\ sumPc' = "done"
  /\ UNCHANGED <<tokenLimit, encOK, sumIn>>

(***************************************************************************)
(* Agent: NewAgent, AddUserMessage, Run                                    *)
(***************************************************************************)
SystemPrompt == "sys"
NoError == "<nil>"
NoResp == [kind |-> "none", err |-> NoError, Content |-> "", Thinking |-> "",
           ToolCalls |-> <<>>]
NoRunRet == [val |-> "", err |-> NoError]

\* the names of the tools handed to NewAgent: a file tool, which asserts the
\* type of its arguments, and another implementation of tools.Tool, whose
\* Execute returns an error or no result at all
ToolNames == {"read_file", "plugin"}

\* the tool calls a model response can hold
ToolCallKinds ==
  { [Name |-> "read_file", ArgsOK |-> TRUE],
    [Name |-> "read_file", ArgsOK |-> FALSE],
    [Name |-> "plugin", ArgsOK |-> TRUE],
    [Name |-> "nope", ArgsOK |-> TRUE] }

RECURSIVE ToolCallLists(_)
ToolCallLists(n) ==
  IF n = 0 THEN {<<>>}
  ELSE LET shorter == ToolCallLists(n - 1)
       IN  shorter \cup
           {Append(l, ToolCall("c" \o ToString(Len(l) + 1), k.Name, k.ArgsOK)) :
              l \in {x \in shorter : Len(x) = n - 1}, k \in ToolCallKinds}

\* the *schema.LLMResponse values Client.Generate can return
Responses ==
  { [kind |-> "ok", err |-> NoError, Content |-> c, Thinking |-> "",
     ToolCalls |-> <<>>] : c \in {"", "done"} }
  \cup
  { [kind |-> "ok", err |-> NoError, Content |-> "", Thinking |-> "t",
     ToolCalls |-> tcs] : tcs \in ToolCallLists(MaxToolCalls) \ {<<>>} }

\* the errors Client.Generate can return: retries exhausted, or cancelled
GenerateErrors == {"retry failed after 4 attempts", "context canceled"}

\* the error of a failed AgentLogger.StartNewRun
LogError == "failed to create log file"

\* *tools.ToolResult values, nil among them
NilResult == [nil |-> TRUE, Success |-> FALSE, Content |-> "", Error |-> ""]
ToolResult(success, content, error) ==
  [nil |-> FALSE, Success |-> success, Content |-> content, Error |-> error]

\* what tool.Execute(ctx, args) can come to for a call of a registered tool
ToolOutcomes(tc) ==
  IF tc.Name = "read_file"
    THEN IF ~tc.ArgsOK
           \* path := args["path"].(string)
           THEN {[kind |-> "panic", result |-> NilResult, err |-> NoError]}
           ELSE {[kind |-> "ok", result |-> ToolResult(TRUE, "out", ""),
                  err |-> NoError],
                 [kind |-> "fail",
                  result |-> ToolResult(FALSE, "", "File not found: f"),
                  err |-> NoError]}
    ELSE {[kind |-> "err", result |-> NilResult, err |-> "boom"],
          [kind |-> "nil", result |-> NilResult, err |-> NoError]}

\* the result Run goes on with after tool.Execute returned (result, err)
ResultAfterExecute(o) ==
  IF o.err # NoError THEN ToolResult(FALSE, "", o.err) ELSE o.result

\* Run panics in a tool call: the tool panicked, or Run reads result.Success
\* of a nil result
RunPanics(o) == o.kind = "panic" \/ ResultAfterExecute(o).nil

\* an unknown-tool result that does not name the tool
UnknownToolResult_noName(name) == ToolResult(FALSE, "", "Unknown tool")

\* the result of a call of a tool that is not in a.tools
UnknownToolResult(name) == ToolResult(FALSE, "", "Unknown tool: " \o name)

\* retval: the content of the tool message
Retval(result) ==
  IF ~result.Success THEN "Error: " \o result.Error ELSE result.Content

\* a tool message that does not echo the id of its call
ToolMessageFor_noId(tc, result) == ToolMessage(Retval(result), "", tc.Name)

\* the tool message Run appends for a tool call
ToolMessageFor(tc, result) == ToolMessage(Retval(result), tc.ID, tc.Name)

\* a loop that stops on an empty content instead of on no tool calls
IsFinalResponse_byContent(r) == r.Content # ""

\* len(resp.ToolCalls) == 0
IsFinalResponse(r) == Len(r.ToolCalls) = 0

\* Run returning the error text without the error
ReturnOnError_swallowed(e) == [val |-> e, err |-> NoError]

\* return err.Error(), err
ReturnOnError(e) == [val |-> e, err |-> e]

\* msg := fmt.Sprintf("Task could not complete in %d steps.", a.maxSteps)
BudgetMessage(n) == "Task could not complete in " \o ToString(n) \o " steps."

AgentIdle ==
  /\ messages = <<>>
  /\ maxSteps = 0
  /\ apc = "none"
  /\ step = 0
  /\ resp = NoResp
  /\ tcIdx = 0
  /\ runRet = NoRunRet
  /\ modelCalls = 0
  /\ toolExecs = 0
  /\ asked = 0
  /\ lastTool = "none"
  /\ allToolResp = TRUE
  /\ users = 0
  /\ runs = 0
  /\ runCtxDone = FALSE

\* NewAgent
AgentInit ==
  /\ messages = <<SystemMessage(SystemPrompt)>>
  /\ maxSteps \in 0 .. MaxStepsBound
  /\ tokenLimit \in {MaxTokenLimit, DefaultTokenLimit}
  /\ encOK = TRUE
  /\ sumPc = "idle"
  /\ sumIn = <<>>
  /\ sumOuts = <<>>
  /\ sumOut = <<>>
  /\ sumCalls = 0
  /\ apc = "idle"
  /\ step = 0
  /\ resp = NoResp
  /\ tcIdx = 0
  /\ runRet = NoRunRet
  /\ modelCalls = 0
  /\ toolExecs = 0
  /\ asked = 0
  /\ lastTool = "none"
  /\ allToolResp = TRUE
  /\ users = 0
  /\ runs = 0
  /\ runCtxDone = FALSE

\* Agent.AddUserMessage, between two calls of Run
AddUserMessage ==
  /\ UNCHANGED <<retryVars, bashVars, otherVars>>
  /\ UNCHANGED runCtxDone
  /\ apc \in {"idle", "done"}
  /\ users < MaxUserMsgs
  /\ messages' = Append(messages, UserMessage("hi"))
  /\ users' = users + 1
  /\ UNCHANGED <<asked, maxSteps, apc, step, resp, tcIdx, runRet, modelCalls,
                 toolExecs, lastTool, allToolResp, runs>>
  /\ UNCHANGED sumVars

\* Run is called: a.log.StartNewRun() succeeds or fails
RunStart ==
  /\ UNCHANGED <<retryVars, bashVars, otherVars>>
  /\ runCtxDone' = FALSE
  /\ apc \in {"idle", "done"}
  /\ runs < MaxRuns
  /\ Len(messages) <= MaxHistoryAtRun
  /\ runs' = runs + 1
  /\ step' = 0
  /\ resp' = NoResp
  /\ tcIdx' = 0
  /\ modelCalls' = 0
  /\ toolExecs' = 0
  /\ asked' = 0
  /\ lastTool' = "none"
  /\ allToolResp' = TRUE
  /\ \E logOK \in BOOLEAN :
       IF logOK
         THEN apc' = "loop" /\ runRet' = NoRunRet
         ELSE apc' = "done" /\ runRet' = [val |-> "", err |-> LogError]
  /\ UNCHANGED <<messages, maxSteps, users>>
  /\ UNCHANGED sumVars

\* for step < a.maxSteps fails: the budget is used up
RunBudgetExceeded ==
  /\ UNCHANGED <<retryVars, bashVars, otherVars>>
  /\ UNCHANGED runCtxDone
  /\ apc = "loop"
  /\ ~(step < maxSteps)
  /\ runRet' = [val |-> BudgetMessage(maxSteps), err |-> NoError]
  /\ apc' = "done"
  /\ UNCHANGED <<asked, messages, maxSteps, step, resp, tcIdx, modelCalls, toolExecs,
                 lastTool, allToolResp, users, runs>>
  /\ UNCHANGED sumVars

\* the head of a step: msgSummarizer.SummarizeMessages(ctx, a.messages)
RunSummarize ==
  /\ UNCHANGED <<retryVars, bashVars, otherVars>>
  /\ UNCHANGED runCtxDone
  /\ apc = "loop"
  /\ step < maxSteps
  /\ \E outs \in [RoundsWithCall(messages, tokenLimit, encOK) -> SummaryOutcomes] :
       LET r == SummarizeMessages(messages, tokenLimit, encOK, outs)
       IN  /\ runCtxDone => \A k \in DOMAIN outs : outs[k] = SummaryFailed
           /\ sumIn' = messages
           /\ sumOuts' = outs
           /\ sumOut' = r.msgs
           /\ sumCalls' = r.calls
           /\ messages' = r.msgs
  /\ sumPc' = "done"
  /\ apc' = "generate"
  /\ UNCHANGED <<tokenLimit, encOK>>
  /\ UNCHANGED <<asked, maxSteps, step, resp, tcIdx, runRet, modelCalls, toolExecs,
                 lastTool, allToolResp, users, runs>>

\* resp, err := a.llm.Generate(...) with err != nil
RunGenerateFails ==
  /\ UNCHANGED <<retryVars, bashVars, otherVars>>
  /\ UNCHANGED runCtxDone
  /\ apc = "generate"
  /\ \E e \in GenerateErrors :
       /\ resp' = [NoResp EXCEPT !.kind = "fail", !.err = e]
       /\ runRet' = ReturnOnError(e)
  /\ modelCalls' = modelCalls + 1
  /\ allToolResp' = FALSE
  /\ apc' = "done"
  /\ UNCHANGED <<asked, messages, maxSteps, step, tcIdx, toolExecs, lastTool, users,
                 runs>>
  /\ UNCHANGED sumVars

\* Generate, called with a live ctx, returns a response: the assistant
\* message is appended, and Run
\* returns when the response holds no tool call
RunGenerate ==
  /\ UNCHANGED <<retryVars, bashVars, otherVars>>
  /\ UNCHANGED runCtxDone
  /\ apc = "generate"
  /\ ~runCtxDone
  /\ \E r \in Responses :
       /\ asked + Len(r.ToolCalls) <= MaxRunToolCalls
       /\ asked' = asked + Len(r.ToolCalls)
       /\ resp' = r
       /\ messages' = Append(messages,
                             AssistantMessage(r.Content, r.Thinking, r.ToolCalls))
       /\ allToolResp' = (allToolResp /\ Len(r.ToolCalls) > 0)
       /\ IF IsFinalResponse(r)
            THEN /\ runRet' = [val |-> r.Content, err |-> NoError]
                 /\ apc' = "done"
                 /\ UNCHANGED <<step, tcIdx>>
            ELSE IF Len(r.ToolCalls) = 0
              \* the loop over no tool calls ends at once: step++
              THEN /\ apc' = "loop"
                   /\ step' = step + 1
                   /\ UNCHANGED <<runRet, tcIdx>>
              ELSE /\ apc' = "tools"
                   /\ tcIdx' = 1
                   /\ UNCHANGED <<runRet, step>>
  /\ modelCalls' = modelCalls + 1
  /\ UNCHANGED <<maxSteps, toolExecs, lastTool, users, runs>>
  /\ UNCHANGED sumVars

\* a loop over resp.ToolCalls that ends after its first tool call
AfterToolCall_firstOnly ==
  /\ tcIdx' = tcIdx + 1
  /\ apc' = "loop" /\ step' = step + 1

\* the end of the body of the loop over resp.ToolCalls
AfterToolCall ==
  /\ tcIdx' = tcIdx + 1
  /\ IF tcIdx + 1 > Len(resp.ToolCalls)
       THEN apc' = "loop" /\ step' = step + 1
       ELSE apc' = "tools" /\ step' = step

\* a tool call whose name is not in a.tools
RunUnknownTool ==
  /\ UNCHANGED <<retryVars, bashVars, otherVars>>
  /\ UNCHANGED runCtxDone
  /\ apc = "tools"
  /\ LET tc == resp.ToolCalls[tcIdx]
     IN  /\ tc.Name \notin ToolNames
         /\ messages' = Append(messages,
                               ToolMessageFor(tc, UnknownToolResult(tc.Name)))
  /\ lastTool' = "unknown"
  /\ AfterToolCall
  /\ UNCHANGED <<asked, maxSteps, resp, runRet, modelCalls, toolExecs, allToolResp,
                 users, runs>>
  /\ UNCHANGED sumVars

\* a tool call of a registered tool: tool.Execute(ctx, args) returns
RunExecuteTool ==
  /\ UNCHANGED <<retryVars, bashVars, otherVars>>
  /\ UNCHANGED runCtxDone
  /\ apc = "tools"
  /\ LET tc == resp.ToolCalls[tcIdx]
     IN  /\ tc.Name \in ToolNames
         /\ \E o \in ToolOutcomes(tc) :
              /\ ~RunPanics(o)
              /\ lastTool' = o.kind
              /\ messages' = Append(messages,
                                    ToolMessageFor(tc, ResultAfterExecute(o)))
  /\ toolExecs' = toolExecs + 1
  /\ AfterToolCall
  /\ UNCHANGED <<asked, maxSteps, resp, runRet, modelCalls, allToolResp, users, runs>>
  /\ UNCHANGED sumVars

\* a tool call of a registered tool that panics, in the tool or at
\* result.Success of a nil result: nothing in Run recovers
RunToolPanics ==
  /\ UNCHANGED <<retryVars, bashVars, otherVars>>
  /\ UNCHANGED runCtxDone
  /\ apc = "tools"
  /\ LET tc == resp.ToolCalls[tcIdx]
     IN  /\ tc.Name \in ToolNames
         /\ \E o \in ToolOutcomes(tc) :
              /\ RunPanics(o)
              /\ lastTool' = o.kind
  /\ toolExecs' = toolExecs + 1
  /\ apc' = "panicked"
  /\ UNCHANGED <<asked, messages, maxSteps, step, resp, tcIdx, runRet, modelCalls,
                 allToolResp, users, runs>>
  /\ UNCHANGED sumVars

\* the caller's cancellation signal fires while Run is in progress; Run
\* itself never reads ctx, it only hands it on to SummarizeMessages,
\* Generate and tool.Execute
RunCancel ==
  /\ UNCHANGED <<retryVars, bashVars, otherVars>>
  /\ apc \in {"loop", "generate", "tools"}
  /\ ~runCtxDone
  /\ runCtxDone' = TRUE
  /\ UNCHANGED <<asked, messages, maxSteps, apc, step, resp, tcIdx, runRet,
                 modelCalls, toolExecs, lastTool, allToolResp, users, runs>>
  /\ UNCHANGED sumVars

Run ==
  \/ RunStart
  \/ RunBudgetExceeded
  \/ RunSummarize
  \/ RunGenerateFails
  \/ RunGenerate
  \/ RunUnknownTool
  \/ RunExecuteTool
  \/ RunToolPanics
  \/ RunCancel

(***************************************************************************)
(* BashTool.Execute in the foreground                                      *)
(***************************************************************************)
\* int(vv) of a float64 given in tenths: truncation toward zero
TruncTenths(t) == IF t >= 0 THEN t \div 10 ELSE -((-t) \div 10)

\* getIntArg(args, key, def) for the value v of args[key]
getIntArg(v, def) ==
  CASE v.kind = "absent" -> def
    [] v.kind = "int" -> v.val
    [] v.kind = "float" -> TruncTenths(v.tenths)
    [] OTHER -> def

\* a clamp that lets a timeout above the maximum through
ClampTimeout_noMax(t) == IF t < MinTimeout THEN DefaultTimeout ELSE t

\* timeout > 600 becomes 600, timeout < 1 becomes 120
ClampTimeout(t) ==
  IF t > MaxTimeout THEN MaxTimeout
  ELSE IF t < MinTimeout THEN DefaultTimeout
  ELSE t

\* timeout := getIntArg(args, "timeout", 120), clamped
AppliedTimeout(v) == ClampTimeout(getIntArg(v, DefaultTimeout))

\* the integers tried as a timeout: around both ends of the range, and the
\* default
TimeoutInts ==
  (MinTimeout - TimeoutSlack .. MinTimeout + TimeoutSlack)
  \cup (MaxTimeout - TimeoutSlack .. MaxTimeout + TimeoutSlack)
  \cup {DefaultTimeout}

\* the values args["timeout"] can hold
TimeoutArgs ==
  {[kind |-> "absent", val |-> 0, tenths |-> 0],
   [kind |-> "string", val |-> 0, tenths |-> 0]}
  \cup {[kind |-> "int", val |-> n, tenths |-> 0] : n \in TimeoutInts}
  \cup {[kind |-> "float", val |-> 0, tenths |-> 10 * n + 5] :
          n \in {MinTimeout - 1, MinTimeout, MaxTimeout}}

\* the exit codes of a subprocess that exits on its own
ExitCodes == {0, 7}
\* values of *os.ProcessState: none, ended by Process.Kill, exited with a code
NilState == [kind |-> "nil", code |-> 0]
Killed == [kind |-> "killed", code |-> 0]
Exited(c) == [kind |-> "exit", code |-> c]

\* ProcessState.ExitCode(): -1 for a process ended by a signal; on Windows
\* Process.Kill ends the process with exit code 1
ExitCode(st) == IF st = Killed THEN (IF isWindows THEN 1 ELSE -1) ELSE st.code

\* the error of Cmd.Wait for what Process.Wait returned
WaitErr(st) ==
  IF st = NilState THEN "wait: no child processes"
  ELSE IF st = Killed THEN "signal: killed"
  ELSE IF st.code = 0 THEN NoError
  ELSE "exit status " \o ToString(st.code)

NoFgResult == [Success |-> FALSE, Error |-> "", ExitCode |-> 0, returned |-> FALSE]

\* the exit code Execute reports: that of cmd.ProcessState when there is one,
\* else -1 when err != nil
ReportedExitCode(ps, err) ==
  IF ps # NilState THEN ExitCode(ps)
  ELSE IF err # NoError THEN -1
  ELSE 0

\* the *ToolResult of a foreground call
FgToolResult(ps, err) ==
  [Success |-> (err = NoError), Error |-> (IF err = NoError THEN "" ELSE err),
   ExitCode |-> ReportedExitCode(ps, err), returned |-> TRUE]

\* the err Execute sets after killing the subprocess
ErrFor(cause, timeout) ==
  IF cause = "cancel" THEN "command cancelled: context canceled"
  ELSE "command timed out after " \o ToString(timeout) \o " seconds"

FgIdle ==
  /\ isWindows = FALSE
  /\ fgArgs = [command |-> "", timeout |-> [kind |-> "absent", val |-> 0, tenths |-> 0]]
  /\ fgTimeout = 0
  /\ fgPc = "idle"
  /\ fgCause = "none"
  /\ fgCtxDone = FALSE
  /\ fgTimerFired = FALSE
  /\ fgErr = NoError
  /\ fgResult = NoFgResult
  /\ gPc = "none"
  /\ gState = NilState
  /\ mState = NilState
  /\ cmdProcess = FALSE
  /\ processState = NilState
  /\ proc = "none"
  /\ procStatus = NilState
  /\ selfExit = FALSE
  /\ doneCh = <<>>

\* Execute has been called with some arguments and a context not yet cancelled
FgInit ==
  \* runtime.GOOS is not "windows"
  /\ isWindows = FALSE
  /\ fgArgs \in [command : {"", "cmd"}, timeout : TimeoutArgs]
  /\ fgCtxDone = FALSE
  /\ fgTimeout = 0
  /\ fgPc = "call"
  /\ fgCause = "none"
  /\ fgTimerFired = FALSE
  /\ fgErr = NoError
  /\ fgResult = NoFgResult
  /\ gPc = "none"
  /\ gState = NilState
  /\ mState = NilState
  /\ cmdProcess = FALSE
  /\ processState = NilState
  /\ proc = "none"
  /\ procStatus = NilState
  /\ selfExit = FALSE
  /\ doneCh = <<>>

OtherIdle == UNCHANGED <<retryVars, sumVars, agentVars, bgVars, otherVars>>

\* an empty command: Execute returns "command is required"
FgRejectCommand ==
  /\ OtherIdle
  /\ fgPc = "call"
  /\ fgArgs.command = ""
  /\ fgResult' = [Success |-> FALSE, Error |-> "command is required",
                  ExitCode |-> 0, returned |-> TRUE]
  /\ fgPc' = "done"
  /\ UNCHANGED <<isWindows, fgArgs, fgTimeout, fgCause, fgCtxDone, fgTimerFired,
                 fgErr, gPc, gState, mState, cmdProcess, processState, proc,
                 procStatus, selfExit, doneCh>>

\* Execute up to its select: the timeout is fixed, the goroutine running
\* cmd.Run is started and the timer is set
FgSpawn ==
  /\ OtherIdle
  /\ fgPc = "call"
  /\ fgArgs.command # ""
  /\ fgTimeout' = AppliedTimeout(fgArgs.timeout)
  /\ gPc' = "start"
  /\ fgPc' = "select"
  /\ UNCHANGED <<isWindows, fgArgs, fgCause, fgCtxDone, fgTimerFired, fgErr,
                 fgResult, gState, mState, cmdProcess, processState, proc,
                 procStatus, selfExit, doneCh>>

\* the goroutine: cmd.Start fails, cmd.Run returns its error
GStartFails ==
  /\ OtherIdle
  /\ gPc = "start"
  /\ doneCh' = <<"exec: executable file not found">>
  /\ gPc' = "end"
  /\ UNCHANGED <<isWindows, fgArgs, fgTimeout, fgPc, fgCause, fgCtxDone,
                 fgTimerFired, fgErr, fgResult, gState, mState, cmdProcess,
                 processState, proc, procStatus, selfExit>>

\* the goroutine: cmd.Start starts the subprocess and sets cmd.Process
GStart ==
  /\ OtherIdle
  /\ gPc = "start"
  /\ cmdProcess' = TRUE
  /\ proc' = "running"
  /\ gPc' = "wait"
  /\ UNCHANGED <<isWindows, fgArgs, fgTimeout, fgPc, fgCause, fgCtxDone,
                 fgTimerFired, fgErr, fgResult, gState, mState, processState,
                 procStatus, selfExit, doneCh>>

\* the subprocess exits on its own with code c
ProcExit ==
  /\ OtherIdle
  /\ proc = "running"
  /\ \E c \in ExitCodes : procStatus' = Exited(c)
  /\ proc' = "exited"
  /\ selfExit' = TRUE
  /\ UNCHANGED <<isWindows, fgArgs, fgTimeout, fgPc, fgCause, fgCtxDone,
                 fgTimerFired, fgErr, fgResult, gPc, gState, mState, cmdProcess,
                 processState, doneCh>>

\* the goroutine enters cmd.Wait: "Wait was already called" when
\* cmd.ProcessState is set, else on to c.Process.Wait()
GWaitEnter ==
  /\ OtherIdle
  /\ gPc = "wait"
  /\ IF processState # NilState
       THEN /\ doneCh' = <<"exec: Wait was already called">>
            /\ gPc' = "end"
       ELSE /\ gPc' = "reap"
            /\ UNCHANGED doneCh
  /\ UNCHANGED <<isWindows, fgArgs, fgTimeout, fgPc, fgCause, fgCtxDone,
                 fgTimerFired, fgErr, fgResult, gState, mState, cmdProcess,
                 processState, proc, procStatus, selfExit>>

\* the goroutine's c.Process.Wait() returns: with the state of the process,
\* or with an error and no state when the process was already waited for
GReap ==
  /\ OtherIdle
  /\ gPc = "reap"
  /\ proc \in {"exited", "reaped"}
  /\ gState' = IF proc = "exited" THEN procStatus ELSE NilState
  /\ proc' = "reaped"
  /\ gPc' = "store"
  /\ UNCHANGED <<isWindows, fgArgs, fgTimeout, fgPc, fgCause, fgCtxDone,
                 fgTimerFired, fgErr, fgResult, mState, cmdProcess, processState,
                 procStatus, selfExit, doneCh>>

\* the goroutine: c.ProcessState = state, cmd.Run returns, done <- err
GStore ==
  /\ OtherIdle
  /\ gPc = "store"
  /\ processState' = gState
  /\ doneCh' = <<WaitErr(gState)>>
  /\ gPc' = "end"
  /\ UNCHANGED <<isWindows, fgArgs, fgTimeout, fgPc, fgCause, fgCtxDone,
                 fgTimerFired, fgErr, fgResult, gState, mState, cmdProcess, proc,
                 procStatus, selfExit>>

\* the timeout elapses while Execute is in its select
FgTimerFires ==
  /\ OtherIdle
  /\ fgPc = "select"
  /\ ~fgTimerFired
  /\ fgTimerFired' = TRUE
  /\ UNCHANGED <<isWindows, fgArgs, fgTimeout, fgPc, fgCause, fgCtxDone, fgErr,
                 fgResult, gPc, gState, mState, cmdProcess, processState, proc,
                 procStatus, selfExit, doneCh>>

\* the caller cancels ctx, before the call or while Execute is in its select
FgCancel ==
  /\ OtherIdle
  /\ fgPc \in {"call", "select"}
  /\ ~fgCtxDone
  /\ fgCtxDone' = TRUE
  /\ UNCHANGED <<isWindows, fgArgs, fgTimeout, fgPc, fgCause, fgTimerFired, fgErr,
                 fgResult, gPc, gState, mState, cmdProcess, processState, proc,
                 procStatus, selfExit, doneCh>>

\* select: case e := <-done
FgSelectDone ==
  /\ OtherIdle
  /\ fgPc = "select"
  /\ doneCh # <<>>
  /\ fgErr' = doneCh[1]
  /\ doneCh' = <<>>
  /\ fgCause' = "done"
  /\ fgPc' = "return"
  /\ UNCHANGED <<isWindows, fgArgs, fgTimeout, fgCtxDone, fgTimerFired, fgResult,
                 gPc, gState, mState, cmdProcess, processState, proc, procStatus,
                 selfExit>>

\* select: case <-ctx.Done()
FgSelectCancel ==
  /\ OtherIdle
  /\ fgPc = "select"
  /\ fgCtxDone
  /\ fgCause' = "cancel"
  /\ fgPc' = "kill"
  /\ UNCHANGED <<isWindows, fgArgs, fgTimeout, fgCtxDone, fgTimerFired, fgErr,
                 fgResult, gPc, gState, mState, cmdProcess, processState, proc,
                 procStatus, selfExit, doneCh>>

\* select: case <-time.After(timeout)
FgSelectTimeout ==
  /\ OtherIdle
  /\ fgPc = "select"
  /\ fgTimerFired
  /\ fgCause' = "timeout"
  /\ fgPc' = "kill"
  /\ UNCHANGED <<isWindows, fgArgs, fgTimeout, fgCtxDone, fgTimerFired, fgErr,
                 fgResult, gPc, gState, mState, cmdProcess, processState, proc,
                 procStatus, selfExit, doneCh>>

\* _ = cmd.Process.Kill() with cmd.Process still nil: a nil dereference
FgKillPanics ==
  /\ OtherIdle
  /\ fgPc = "kill"
  /\ ~cmdProcess
  /\ fgPc' = "panicked"
  /\ UNCHANGED <<isWindows, fgArgs, fgTimeout, fgCause, fgCtxDone, fgTimerFired,
                 fgErr, fgResult, gPc, gState, mState, cmdProcess, processState,
                 proc, procStatus, selfExit, doneCh>>

\* _ = cmd.Process.Kill(): ends a running subprocess, fails on a finished one
FgKill ==
  /\ OtherIdle
  /\ fgPc = "kill"
  /\ cmdProcess
  /\ IF proc = "running"
       THEN proc' = "exited" /\ procStatus' = Killed
       ELSE UNCHANGED <<proc, procStatus>>
  /\ fgPc' = "wait"
  /\ UNCHANGED <<isWindows, fgArgs, fgTimeout, fgCause, fgCtxDone, fgTimerFired,
                 fgErr, fgResult, gPc, gState, mState, cmdProcess, processState,
                 selfExit, doneCh>>

\* Execute enters its own cmd.Wait
FgWaitEnter ==
  /\ OtherIdle
  /\ fgPc = "wait"
  /\ fgPc' = IF processState # NilState THEN "return" ELSE "reap"
  /\ fgErr' = IF processState # NilState THEN ErrFor(fgCause, fgTimeout) ELSE fgErr
  /\ UNCHANGED <<isWindows, fgArgs, fgTimeout, fgCause, fgCtxDone, fgTimerFired,
                 fgResult, gPc, gState, mState, cmdProcess, processState, proc,
                 procStatus, selfExit, doneCh>>

\* Execute's c.Process.Wait() returns
FgReap ==
  /\ OtherIdle
  /\ fgPc = "reap"
  /\ proc \in {"exited", "reaped"}
  /\ mState' = IF proc = "exited" THEN procStatus ELSE NilState
  /\ proc' = "reaped"
  /\ fgPc' = "store"
  /\ UNCHANGED <<isWindows, fgArgs, fgTimeout, fgCause, fgCtxDone, fgTimerFired,
                 fgErr, fgResult, gPc, gState, cmdProcess, processState,
                 procStatus, selfExit, doneCh>>

\* Execute's cmd.Wait: c.ProcessState = state; then err is set for the cause
FgStore ==
  /\ OtherIdle
  /\ fgPc = "store"
  /\ processState' = mState
  /\ fgErr' = ErrFor(fgCause, fgTimeout)
  /\ fgPc' = "return"
  /\ UNCHANGED <<isWindows, fgArgs, fgTimeout, fgCause, fgCtxDone, fgTimerFired,
                 fgResult, gPc, gState, mState, cmdProcess, proc, procStatus,
                 selfExit, doneCh>>

\* the exit code is read off cmd.ProcessState and the result is returned
FgReturn ==
  /\ OtherIdle
  /\ fgPc = "return"
  /\ fgResult' = FgToolResult(processState, fgErr)
  /\ fgPc' = "done"
  /\ UNCHANGED <<isWindows, fgArgs, fgTimeout, fgCause, fgCtxDone, fgTimerFired,
                 fgErr, gPc, gState, mState, cmdProcess, processState, proc,
                 procStatus, selfExit, doneCh>>

(***************************************************************************)
(* Background shells: BashTool.Execute with run_in_background,             *)
(* BashOutputTool, BashKillTool, monitorShellOutput                        *)
(***************************************************************************)
\* the threads calling the tools, and the values generateBashID can return
Callers == {"t1", "t2"}
BashIDs == {"id1", "id2"}

\* BackgroundShell.ExitCode, a *int
NoCode == [set |-> FALSE, val |-> 0]
Code(c) == [set |-> TRUE, val |-> c]

\* the n-th line of a shell's output; tag is what a pattern is matched
\* against: the commands write lines tagged "a" and "b" in turn
Line(n, tag) == [n |-> n, tag |-> tag]
LineTag(n) == IF n % 2 = 1 THEN "a" ELSE "b"

\* the values of filter_str: none, a pattern matching the lines tagged "a",
\* a pattern that does not compile
Filters == {"", "a", "("}
\* regexp.Compile(filterStr) succeeds
Compiles(f) == f # "("
\* re.MatchString(line)
MatchString(f, line) == line.tag = f

\* an invalid pattern that filters every line out
ApplyFilter_invalidDropsAll(f, lines) ==
  IF f = "" THEN lines
  ELSE IF Compiles(f) THEN SelectSeq(lines, LAMBDA l : MatchString(f, l))
  ELSE <<>>

\* the filtering of BashOutputTool.Execute
ApplyFilter(f, lines) ==
  IF f # "" /\ Compiles(f) THEN SelectSeq(lines, LAMBDA l : MatchString(f, l))
  ELSE lines

\* a BackgroundShell together with its subprocess and its monitor
NewShell(id) ==
  [BashID |-> id, OutputLines |-> <<>>, LastReadIndex |-> 0,
   Status |-> "running", ExitCode |-> NoCode,
   proc |-> "running", code |-> 0, mon |-> "read"]

\* a registry that does not store the shell
Add_dropped(m, id, j) == m

\* BackgroundShellManager.Add: m.shells[shell.BashID] = shell
Add(m, id, j) == [k \in DOMAIN m \cup {id} |-> IF k = id THEN j ELSE m[k]]

\* BackgroundShellManager.Get: the shell, or nil (0)
Get(m, id) == IF id \in DOMAIN m THEN m[id] ELSE 0

\* a Remove that leaves the entry in place
Remove_kept(m, id) == m

\* BackgroundShellManager.Remove
Remove(m, id) == [k \in DOMAIN m \ {id} |-> m[k]]

\* BackgroundShellManager.ListIDs
ListIDs(m) == DOMAIN m

\* a cursor that stays where it was
NewReadIndex_stale(s) == s.LastReadIndex

\* BackgroundShell.GetNewOutput: the lines returned and the new cursor
NewReadIndex(s) == Len(s.OutputLines)
NewLines(s) == SubSeq(s.OutputLines, s.LastReadIndex + 1, Len(s.OutputLines))
GetNewOutput(s) == [s EXCEPT !.LastReadIndex = NewReadIndex(s)]

\* BackgroundShell.AddOutput
AddOutput(s, line) == [s EXCEPT !.OutputLines = Append(@, line)]

\* an UpdateStatus that takes every ended process for a completed one
UpdateStatus_alwaysCompleted(s, code) ==
  [s EXCEPT !.Status = "completed", !.ExitCode = Code(code)]

\* BackgroundShell.UpdateStatus(false, code)
UpdateStatus(s, code) ==
  [s EXCEPT !.Status = IF code = 0 THEN "completed" ELSE "failed",
            !.ExitCode = Code(code)]

\* BackgroundShell.SetErrorStatus
SetErrorStatus(s) ==
  [s EXCEPT !.Status = "error",
            !.OutputLines = Append(@, Line(Len(@) + 1, "Monitor error"))]

\* BackgroundShell.Terminate
Terminate(s) ==
  [s EXCEPT !.proc = IF @ = "running" THEN "killed" ELSE @,
            !.Status = "terminated",
            !.ExitCode = Code(-1)]

\* an exit code that ignores what the shell recorded
ExitCodeOr_ignoreRecorded(s, def) == def

\* exitCode of a tool result: *shell.ExitCode, or def when it is nil
ExitCodeOr(s, def) == IF s.ExitCode.set THEN s.ExitCode.val ELSE def

NoBgResult == [tool |-> "none", Success |-> FALSE, Error |-> "", Stdout |-> <<>>,
               ExitCode |-> 0, BashID |-> "", Available |-> {}]
IdleCaller == [pc |-> "idle", op |-> "none", id |-> "", filter |-> "", shell |-> 0,
               lines |-> <<>>]

\* a "not found" result that lists no ids
NotFoundResult_noIds(tool, m) ==
  [tool |-> tool, Success |-> FALSE, Error |-> "Shell not found", Stdout |-> <<>>,
   ExitCode |-> 0, BashID |-> "", Available |-> {}]

\* the result of a call on an id that is not in the registry
NotFoundResult(tool, m) ==
  [tool |-> tool, Success |-> FALSE, Error |-> "Shell not found", Stdout |-> <<>>,
   ExitCode |-> 0, BashID |-> "", Available |-> ListIDs(m)]

\* the successful results of the three tools
StartedResult(id) ==
  [tool |-> "bash", Success |-> TRUE, Error |-> "", Stdout |-> <<>>,
   ExitCode |-> 0, BashID |-> id, Available |-> {}]
StartFailedResult ==
  [tool |-> "bash", Success |-> FALSE, Error |-> "exec: start failed",
   Stdout |-> <<>>, ExitCode |-> 0, BashID |-> "", Available |-> {}]
OutputResult(tool, lines, code, id) ==
  [tool |-> tool, Success |-> TRUE, Error |-> "", Stdout |-> lines,
   ExitCode |-> code, BashID |-> id, Available |-> {}]

\* the runs looked at: one thread working with several shells that write
\* nothing and run until they are killed, or all threads working with one
\* shell that writes up to MaxLines lines and may end on its own
Workloads ==
  {[jobs |-> MaxJobs, lines |-> 0, ends |-> FALSE, calls |-> MaxBgOps,
    threads |-> {"t1"}],
   [jobs |-> 1, lines |-> MaxLines, ends |-> TRUE, calls |-> MaxBgOps,
    threads |-> Callers]}

BgIdle ==
  /\ workload = [jobs |-> 0, lines |-> 0, ends |-> FALSE, calls |-> 0,
                 threads |-> {}]
  /\ jobs = <<>>
  /\ shells = <<>>
  /\ callers = [t \in Callers |-> IdleCaller]
  /\ bgResult = NoBgResult
  /\ bgOps = 0
  /\ delivered = <<>>
  /\ filteredRead = <<>>

\* no shell has been started yet
BgInit ==
  /\ workload \in Workloads
  /\ jobs = <<>>
  /\ shells = <<>>
  /\ callers = [t \in Callers |-> IdleCaller]
  /\ bgResult = NoBgResult
  /\ bgOps = 0
  /\ delivered = <<>>
  /\ filteredRead = <<>>

NotBg == UNCHANGED <<retryVars, sumVars, agentVars, fgVars, otherVars>>

\* BashTool.Execute with run_in_background whose cmd.Start fails
BgStartFails(t) ==
  /\ NotBg
  /\ t \in workload.threads
  /\ callers[t].pc = "idle"
  /\ Len(jobs) < workload.jobs
  /\ bgResult' = StartFailedResult
  /\ UNCHANGED <<workload, jobs, shells, callers, bgOps, delivered, filteredRead>>

\* BashTool.Execute with run_in_background: the subprocess is started, the
\* shell is added to the registry under a generated id, the monitor is
\* spawned and the result returned
BgStart(t) ==
  /\ NotBg
  /\ t \in workload.threads
  /\ callers[t].pc = "idle"
  /\ Len(jobs) < workload.jobs
  /\ \E id \in BashIDs :
       /\ jobs' = Append(jobs, NewShell(id))
       /\ shells' = Add(shells, id, Len(jobs) + 1)
       /\ bgResult' = StartedResult(id)
  /\ delivered' = Append(delivered, <<>>)
  /\ filteredRead' = Append(filteredRead, FALSE)
  /\ UNCHANGED <<workload, callers, bgOps>>

\* the subprocess of job j exits on its own
ProcEnds(j) ==
  /\ NotBg
  /\ workload.ends
  /\ jobs[j].proc = "running"
  /\ \E c \in ExitCodes :
       jobs' = [jobs EXCEPT ![j].proc = "exited", ![j].code = c]
  /\ bgResult' = NoBgResult
  /\ UNCHANGED <<workload, shells, callers, bgOps, delivered, filteredRead>>

\* monitorShellOutput: a line the subprocess wrote to the merged stream is
\* read and appended; lines written before the subprocess ended can still be
\* in the pipe afterwards
MonitorLine(j) ==
  /\ NotBg
  /\ jobs[j].mon = "read"
  /\ Len(jobs[j].OutputLines) < workload.lines
  /\ LET n == Len(jobs[j].OutputLines) + 1
     IN  jobs' = [jobs EXCEPT ![j] = AddOutput(jobs[j], Line(n, LineTag(n)))]
  /\ bgResult' = NoBgResult
  /\ UNCHANGED <<workload, shells, callers, bgOps, delivered, filteredRead>>

\* monitorShellOutput at io.EOF: cmd.Wait, then UpdateStatus with the exit
\* code of the process (-1 for a process ended by a signal)
MonitorEOF(j) ==
  /\ NotBg
  /\ jobs[j].mon = "read"
  /\ jobs[j].proc # "running"
  /\ jobs' = [jobs EXCEPT ![j] =
       [UpdateStatus(jobs[j], IF jobs[j].proc = "killed" THEN -1 ELSE jobs[j].code)
          EXCEPT !.mon = "end"]]
  /\ bgResult' = NoBgResult
  /\ UNCHANGED <<workload, shells, callers, bgOps, delivered, filteredRead>>

\* monitorShellOutput on a read error other than io.EOF
MonitorReadError(j) ==
  /\ NotBg
  /\ workload.ends
  /\ jobs[j].mon = "read"
  /\ jobs' = [jobs EXCEPT ![j] = [SetErrorStatus(jobs[j]) EXCEPT !.mon = "end"]]
  /\ bgResult' = NoBgResult
  /\ UNCHANGED <<workload, shells, callers, bgOps, delivered, filteredRead>>

\* BashOutputTool.Execute / BashKillTool.Execute: globalShellManager.Get(id)
BgGet(t) ==
  /\ NotBg
  /\ t \in workload.threads
  /\ callers[t].pc = "idle"
  /\ bgOps < workload.calls
  /\ bgOps' = bgOps + 1
  /\ \E op \in {"output", "kill"}, id \in BashIDs, f \in Filters :
       /\ op = "kill" => f = ""
       /\ callers' = [callers EXCEPT ![t] =
            [IdleCaller EXCEPT !.op = op, !.id = id, !.filter = f,
                               !.shell = Get(shells, id),
                               !.pc = IF Get(shells, id) = 0 THEN "list" ELSE "new"]]
  /\ bgResult' = NoBgResult
  /\ UNCHANGED <<workload, jobs, shells, delivered, filteredRead>>

\* shell == nil: ListIDs and the "Shell not found" result
BgNotFound(t) ==
  /\ NotBg
  /\ callers[t].pc = "list"
  /\ bgResult' = NotFoundResult(IF callers[t].op = "output" THEN "bash_output"
                                 ELSE "bash_kill", shells)
  /\ callers' = [callers EXCEPT ![t] = IdleCaller]
  /\ UNCHANGED <<workload, jobs, shells, bgOps, delivered, filteredRead>>

\* lines := shell.GetNewOutput(), and for BashOutputTool the filtering
BgGetNewOutput(t) ==
  /\ NotBg
  /\ callers[t].pc = "new"
  /\ LET j == callers[t].shell
         lines == IF callers[t].op = "output"
                    THEN ApplyFilter(callers[t].filter, NewLines(jobs[j]))
                    ELSE NewLines(jobs[j])
     IN  /\ jobs' = [jobs EXCEPT ![j] = GetNewOutput(jobs[j])]
         /\ callers' = [callers EXCEPT ![t].lines = lines,
                                       ![t].pc = IF callers[t].op = "output"
                                                   THEN "ret" ELSE "term"]
         /\ delivered' = [delivered EXCEPT ![j] = @ \o lines]
         /\ filteredRead' = [filteredRead EXCEPT ![j] =
              @ \/ (callers[t].op = "output" /\ callers[t].filter # ""
                      /\ Compiles(callers[t].filter))]
  /\ bgResult' = NoBgResult
  /\ UNCHANGED <<workload, shells, bgOps>>

\* BashOutputTool.Execute: shell.ExitCode is read and the result returned
BgOutputReturn(t) ==
  /\ NotBg
  /\ callers[t].pc = "ret"
  /\ bgResult' = OutputResult("bash_output", callers[t].lines,
                              ExitCodeOr(jobs[callers[t].shell], 0), callers[t].id)
  /\ callers' = [callers EXCEPT ![t] = IdleCaller]
  /\ UNCHANGED <<workload, jobs, shells, bgOps, delivered, filteredRead>>

\* BashKillTool.Execute: shell.Terminate()
BgTerminate(t) ==
  /\ NotBg
  /\ callers[t].pc = "term"
  /\ jobs' = [jobs EXCEPT ![callers[t].shell] = Terminate(@)]
  /\ callers' = [callers EXCEPT ![t].pc = "remove"]
  /\ bgResult' = NoBgResult
  /\ UNCHANGED <<workload, shells, bgOps, delivered, filteredRead>>

\* BashKillTool.Execute: globalShellManager.Remove(id), shell.ExitCode is
\* read and the result returned
BgRemove(t) ==
  /\ NotBg
  /\ callers[t].pc = "remove"
  /\ shells' = Remove(shells, callers[t].id)
  /\ bgResult' = OutputResult("bash_kill", callers[t].lines,
                              ExitCodeOr(jobs[callers[t].shell], -1), callers[t].id)
  /\ callers' = [callers EXCEPT ![t] = IdleCaller]
  /\ UNCHANGED <<workload, jobs, bgOps, delivered, filteredRead>>

NextBg ==
  \/ \E t \in Callers : BgStart(t)
  \/ \E t \in Callers : BgStartFails(t)
  \/ \E t \in Callers : BgGet(t)
  \/ \E t \in Callers : BgNotFound(t)
  \/ \E t \in Callers : BgGetNewOutput(t)
  \/ \E t \in Callers : BgOutputReturn(t)
  \/ \E t \in Callers : BgTerminate(t)
  \/ \E t \in Callers : BgRemove(t)
  \/ \E j \in 1 .. Len(jobs) : ProcEnds(j)
  \/ \E j \in 1 .. Len(jobs) : MonitorLine(j)
  \/ \E j \in 1 .. Len(jobs) : MonitorEOF(j)
  \/ \E j \in 1 .. Len(jobs) : MonitorReadError(j)

(***************************************************************************)
(* NewAgent                                                                *)
(***************************************************************************)
NoAgent == [nil |-> TRUE, systemPrompt |-> "", workspace |-> "", maxSteps |-> 0,
            tokenLimit |-> 0, messages |-> <<>>]
NoCtorRet == [agent |-> NoAgent, err |-> NoError]

\* the *Agent NewAgent builds: the workspace defaults to "./workspace" and
\* is made absolute; a system prompt that does not hold "Current Workspace"
\* gets the workspace section; the history starts with the system message
BuiltAgent(in) ==
  LET wp == IF in.workspace = "" THEN "./workspace" ELSE in.workspace
      abs == IF wp = "./workspace" THEN "/cwd/workspace" ELSE "/cwd/" \o wp
      contains == in.systemPrompt # "sys"
      prompt == IF contains THEN in.systemPrompt
                ELSE in.systemPrompt \o " ## Current Workspace: " \o abs
  IN  [nil |-> FALSE, systemPrompt |-> prompt, workspace |-> abs,
       maxSteps |-> in.maxSteps, tokenLimit |-> in.tokenLimit,
       messages |-> <<SystemMessage(prompt)>>]

CtorIdle ==
  /\ naIn = [workspace |-> "", systemPrompt |-> "sys", maxSteps |-> 0,
             tokenLimit |-> 0, mkdirOK |-> TRUE, logger |-> "ok"]
  /\ naPc = "idle"
  /\ naDir = FALSE
  /\ naOut = NoCtorRet

\* NewAgent has been called: a workspace or none, a system prompt without
\* or with the workspace section, a directory that can be made or not, and
\* a logger that can be made, or no home directory, or no log directory
CtorInit ==
  /\ naIn \in [workspace : {"", "w"},
               systemPrompt : {"sys", "sys ## Current Workspace: /old"},
               maxSteps : 0 .. MaxStepsBound,
               tokenLimit : {MaxTokenLimit, DefaultTokenLimit},
               mkdirOK : BOOLEAN,
               logger : {"ok", "no home", "no log dir"}]
  /\ naPc = "call"
  /\ naDir = FALSE
  /\ naOut = NoCtorRet

NotCtor == UNCHANGED <<retryVars, sumVars, agentVars, bashVars, lockVars>>

\* abs, _ := filepath.Abs(wp); _ = os.MkdirAll(abs, 0755): the directory is
\* made or not, and NewAgent goes on either way
NewAgentMkdirAll ==
  /\ NotCtor
  /\ naPc = "call"
  /\ naDir' = naIn.mkdirOK
  /\ naPc' = "build"
  /\ UNCHANGED <<naIn, naOut>>

\* the prompt, the tool map and the Agent are built, then
\* logger.NewAgentLogger() fails: return nil, err
NewAgentLoggerFails ==
  /\ NotCtor
  /\ naPc = "build"
  /\ naIn.logger # "ok"
  /\ naOut' = [agent |-> NoAgent,
               err |-> IF naIn.logger = "no home"
                         THEN "cannot determine user home directory"
                         ELSE "cannot create log directory"]
  /\ naPc' = "done"
  /\ UNCHANGED <<naIn, naDir>>

\* ... or succeeds: return ag, nil
NewAgentReturns ==
  /\ NotCtor
  /\ naPc = "build"
  /\ naIn.logger = "ok"
  /\ naOut' = [agent |-> BuiltAgent(naIn), err |-> NoError]
  /\ naPc' = "done"
  /\ UNCHANGED <<naIn, naDir>>

NextCtor ==
  \/ NewAgentMkdirAll
  \/ NewAgentLoggerFails
  \/ NewAgentReturns

(***************************************************************************)
(* The locks of the background shells: BackgroundShellManager.mu and       *)
(* BackgroundShell.mu, as the tools and the monitors take them             *)
(***************************************************************************)
\* the shells the threads work on, and the threads: the callers of the
\* tools and one monitor per shell
LockShells == {1, 2}
Monitors == {"m1", "m2"}
MonitorOf(t) == IF t = "m1" THEN 1 ELSE 2
LockThreads == Callers \cup Monitors

\* instructions: taking and releasing a lock, and reading or writing fields
Lock(on) == [do |-> "lock", on |-> on, fields |-> {}]
Unlock(on) == [do |-> "unlock", on |-> on, fields |-> {}]
Access(on, fields) == [do |-> "rw", on |-> on, fields |-> fields]

\* a method of BackgroundShellManager (Add, Get, Remove, ListIDs): it works
\* on m.shells between m.mu.Lock() and the deferred m.mu.Unlock()
ManagerMethod == <<Lock("reg"), Access("reg", {"shells"}), Unlock("reg")>>

\* a method of BackgroundShell (AddOutput, GetNewOutput, UpdateStatus,
\* SetErrorStatus, Terminate): it works on its fields between s.mu.Lock()
\* and the deferred s.mu.Unlock()
ShellMethod(fields) ==
  <<Lock("shell"), Access("shell", fields), Unlock("shell")>>

\* BashOutputTool.Execute: Get, GetNewOutput, then shell.ExitCode
OutputCode ==
  ManagerMethod \o ShellMethod({"output_lines", "read_cursor"})
    \o <<Access("shell", {"exit_code"})>>

\* a bash_kill that removes the shell from the registry inside Terminate's
\* critical section
KillCode_removeInsideTerminate ==
  ManagerMethod \o ShellMethod({"output_lines", "read_cursor"})
    \o <<Lock("shell"), Access("shell", {"status", "exit_code"})>>
    \o ManagerMethod
    \o <<Unlock("shell"), Access("shell", {"exit_code"})>>

\* BashKillTool.Execute: Get, GetNewOutput, Terminate, Remove, then
\* shell.ExitCode
KillCode ==
  ManagerMethod \o ShellMethod({"output_lines", "read_cursor"})
    \o ShellMethod({"status", "exit_code"}) \o ManagerMethod
    \o <<Access("shell", {"exit_code"})>>

\* what a thread can set out to do. A monitor: AddOutput, UpdateStatus,
\* SetErrorStatus. A caller: a background start (Add), bash_output,
\* either tool on an unknown id (Get, ListIDs), bash_kill
CodeOf(t) ==
  IF t \in Monitors
    THEN {ShellMethod({"output_lines"}), ShellMethod({"status", "exit_code"}),
          ShellMethod({"status", "output_lines"})}
    ELSE {ManagerMethod, OutputCode, ManagerMethod \o ManagerMethod, KillCode}

IdleThread == [code |-> <<>>, ip |-> 0, shell |-> 0]

\* the instruction thread t executes next
Instr(t) == lt[t].code[lt[t].ip]
Busy(t) == lt[t].ip >= 1

\* thread t after its instruction
Advance(t) ==
  IF lt[t].ip = Len(lt[t].code) THEN [lt EXCEPT ![t] = IdleThread]
  ELSE [lt EXCEPT ![t].ip = @ + 1]

LockIdle ==
  /\ regMu = "none"
  /\ shellMu = <<>>
  /\ lt = <<>>

\* no lock is held, every thread is idle
LockInit ==
  /\ regMu = ""
  /\ shellMu = [j \in LockShells |-> ""]
  /\ lt = [t \in LockThreads |-> IdleThread]

NotLock == UNCHANGED <<retryVars, sumVars, agentVars, bashVars, ctorVars>>

\* a tool is called, or a monitor gets to a line, an end-of-file or an
\* error of its stream
ThreadBegins(t) ==
  /\ NotLock
  /\ ~Busy(t)
  /\ \E c \in CodeOf(t), j \in LockShells :
       /\ t \in Monitors => j = MonitorOf(t)
       /\ lt' = [lt EXCEPT ![t] = [code |-> c, ip |-> 1, shell |-> j]]
  /\ UNCHANGED <<regMu, shellMu>>

\* m.mu.Lock() or s.mu.Lock(): blocks while another thread holds the lock
Acquire(t) ==
  /\ NotLock
  /\ Busy(t) /\ Instr(t).do = "lock"
  /\ IF Instr(t).on = "reg"
       THEN /\ regMu = ""
            /\ regMu' = t
            /\ UNCHANGED shellMu
       ELSE /\ shellMu[lt[t].shell] = ""
            /\ shellMu' = [shellMu EXCEPT ![lt[t].shell] = t]
            /\ UNCHANGED regMu
  /\ lt' = Advance(t)

\* m.mu.Unlock() or s.mu.Unlock()
Release(t) ==
  /\ NotLock
  /\ Busy(t) /\ Instr(t).do = "unlock"
  /\ IF Instr(t).on = "reg"
       THEN regMu' = "" /\ UNCHANGED shellMu
       ELSE shellMu' = [shellMu EXCEPT ![lt[t].shell] = ""] /\ UNCHANGED regMu
  /\ lt' = Advance(t)

\* a read or write of the registry's map or of a shell's fields
ThreadAccesses(t) ==
  /\ NotLock
  /\ Busy(t) /\ Instr(t).do = "rw"
  /\ lt' = Advance(t)
  /\ UNCHANGED <<regMu, shellMu>>

NextLock ==
  \/ \E t \in LockThreads : ThreadBegins(t)
  \/ \E t \in LockThreads : Acquire(t)
  \/ \E t \in LockThreads : Release(t)
  \/ \E t \in LockThreads : ThreadAccesses(t)

OtherIdleInit == CtorIdle /\ LockIdle

\* the tools working on an empty registry, nothing else going on
InitBg == RetryIdle /\ SumIdle /\ AgentIdle /\ FgIdle /\ BgInit /\ OtherIdleInit

SpecBg == InitBg /\ [][NextBg]_vars

BashIdle == FgIdle /\ BgIdle /\ OtherIdleInit

NextFg ==
  \/ FgRejectCommand
  \/ FgSpawn
  \/ GStartFails
  \/ GStart
  \/ ProcExit
  \/ GWaitEnter
  \/ GReap
  \/ GStore
  \/ FgTimerFires
  \/ FgCancel
  \/ FgSelectDone
  \/ FgSelectCancel
  \/ FgSelectTimeout
  \/ FgKillPanics
  \/ FgKill
  \/ FgWaitEnter
  \/ FgReap
  \/ FgStore
  \/ FgReturn

\* one foreground call of BashTool.Execute, nothing else going on
InitFg == RetryIdle /\ SumIdle /\ AgentIdle /\ FgInit /\ BgIdle /\ OtherIdleInit

SpecFg == InitFg /\ [][NextFg]_vars

NextRetry == Do

\* one call of retry.Do, nothing else going on
InitRetry == RetryInit /\ SumIdle /\ AgentIdle /\ BashIdle

SpecRetry == InitRetry /\ [][NextRetry]_vars

Next == AddUserMessage \/ Run

\* a freshly constructed agent
Init == RetryIdle /\ AgentInit /\ BashIdle

Spec == Init /\ [][Next]_vars

\* one call of NewAgent, nothing else going on
InitCtor ==
  /\ RetryIdle /\ SumIdle /\ AgentIdle /\ FgIdle /\ BgIdle /\ CtorInit /\ LockIdle

SpecCtor == InitCtor /\ [][NextCtor]_vars

\* the threads of the background shells, nothing else going on
InitLock ==
  /\ RetryIdle /\ SumIdle /\ AgentIdle /\ FgIdle /\ BgIdle /\ CtorIdle /\ LockInit

SpecLock == InitLock /\ [][NextLock]_vars

NextSum == Summarize

\* one call of SummarizeMessages, nothing else going on
InitSum == RetryIdle /\ SumInit /\ AgentIdle /\ BashIdle

SpecSum == InitSum /\ [][NextSum]_vars


(***************************************************************************)
(* Properties of retry.Do (checked under SpecRetry)                        *)
(***************************************************************************)
StrictlyIncreasing(s) == \A i \in 1 .. Len(s) - 1 : s[i] < s[i + 1]

\* C5: with retry enabled, max_attempts >= 0 and no cancellation, an
\* operation that fails on every invocation is invoked exactly
\* max_attempts + 1 times and Do returns an attempts-exhausted error carrying
\* the last underlying error and the attempt count max_attempts + 1.
C5_ExhaustedAfterAllAttempts ==
  (rpc = "done" /\ cfg.Enabled /\ cfg.MaxRetries >= 0 /\ ~ctxDone
     /\ failFirst > cfg.MaxRetries)
  => /\ invocations = cfg.MaxRetries + 1
     /\ ret.val = "zero"
     /\ ret.err = [kind |-> "exhausted", last |-> invocations,
                   attempts |-> cfg.MaxRetries + 1]

C5_Witness ==
  /\ rpc = "done" /\ cfg.Enabled /\ cfg.MaxRetries = MaxRetriesBound
  /\ ~ctxDone /\ failFirst > cfg.MaxRetries
  /\ invocations = MaxRetriesBound + 1
  /\ ret.err.kind = "exhausted"

\* C6 (as stated): with retry enabled, an operation that fails its first k
\* invocations (k < max_attempts) and then succeeds makes Do return the
\* success value after exactly k + 1 invocations, with onRetry invoked
\* exactly k times with strictly increasing attempt numbers.
C6_SuccessAfterKFailures ==
  (rpc = "done" /\ cfg.Enabled /\ hasOnRetry /\ failFirst < cfg.MaxRetries)
  => /\ ret = [val |-> "ok", err |-> NoErr]
     /\ invocations = failFirst + 1
     /\ Len(retries) = failFirst
     /\ StrictlyIncreasing(retries)

\* C6 (amended): under the same premises Do either returns the success value
\* after exactly k + 1 invocations with k onRetry calls, or, when the
\* cancellation signal has fired, returns the cancellation error out of a
\* backoff wait after j <= k invocations and j onRetry calls; in both cases
\* the attempt numbers given to onRetry are strictly increasing and the
\* operation is not invoked after its success.
C6_SuccessAfterKFailuresUnlessCancelled ==
  (rpc = "done" /\ cfg.Enabled /\ hasOnRetry /\ failFirst < cfg.MaxRetries)
  => /\ \/ /\ ret = [val |-> "ok", err |-> NoErr]
           /\ invocations = failFirst + 1
           /\ Len(retries) = failFirst
        \/ /\ ctxDone
           /\ ret = [val |-> "zero", err |-> CtxErr]
           /\ invocations \in 1 .. failFirst
           /\ Len(retries) = invocations
     /\ StrictlyIncreasing(retries)

C6_Witness ==
  /\ rpc = "done" /\ cfg.Enabled /\ hasOnRetry
  /\ failFirst = 2 /\ failFirst < cfg.MaxRetries
  /\ ret.val = "ok" /\ invocations = 3 /\ retries = <<1, 2>>

\* C7: once the cancellation signal has fired while Do is in a backoff wait
\* (or had fired when the wait began, whatever the delay), Do never invokes
\* the operation again.
C7_NoInvocationAfterCancelledWait ==
  [][firedInWait => invocations' = invocations]_vars

\* initial_delay * backoff_base^n, as a number
Backoff(c, n) == c.InitialDelay * Pow(c.ExponentialBase, n)

MinOf(a, b) == IF a <= b THEN a ELSE b

\* C39 (as stated): the delay Do waits after failed attempt number n is
\* min(initial_delay * backoff_base^n, max_delay): the first delay equals
\* initial_delay, no delay ever exceeds max_delay, and for backoff_base >= 1
\* the delays never decrease from one attempt to the next.
C39_DelayIsCappedBackoff ==
  [][ (rpc = "call" /\ rpc' = "wait")
      => /\ delay' = MinOf(Backoff(cfg, attempt), cfg.MaxDelay)
         /\ attempt = 0 => delay' = cfg.InitialDelay
         /\ delay' <= cfg.MaxDelay
         /\ (attempt > 0 /\ cfg.ExponentialBase >= 1) => delay' >= delay
    ]_vars

\* C39 (amended): the delay Do waits after failed attempt number n is
\* min(initial_delay * backoff_base^n, max_delay): the first delay equals
\* initial_delay when initial_delay <= max_delay and max_delay otherwise, no
\* delay ever exceeds max_delay, and for backoff_base >= 1 and
\* initial_delay >= 0 the delays never decrease from one attempt to the next.
C39_DelayIsCappedBackoffFromMin ==
  [][ (rpc = "call" /\ rpc' = "wait")
      => /\ delay' = MinOf(Backoff(cfg, attempt), cfg.MaxDelay)
         /\ attempt = 0
              => delay' = (IF cfg.InitialDelay <= cfg.MaxDelay
                             THEN cfg.InitialDelay ELSE cfg.MaxDelay)
         /\ delay' <= cfg.MaxDelay
         /\ (attempt > 0 /\ cfg.ExponentialBase >= 1 /\ cfg.InitialDelay >= 0)
              => delay' >= delay
    ]_vars

\* Do waits a second time, for a delay that the cap has cut down
C39_Witness ==
  /\ rpc = "wait"
  /\ attempt = 1
  /\ cfg.InitialDelay = 1 /\ cfg.ExponentialBase = 2 /\ cfg.MaxDelay = 1
  /\ Backoff(cfg, attempt) > cfg.MaxDelay
  /\ delay = cfg.MaxDelay

\* C40: for every retry policy, including an enabled policy whose
\* max_attempts is zero or negative, Do invokes the operation at least once
\* and returns a nil error only when some invocation of the operation
\* succeeded.
C40_InvokedAtLeastOnce ==
  rpc = "done"
  => /\ invocations >= 1
     /\ ret.err = NoErr => (ret.val = "ok" /\ ~FnFails(invocations))

(***************************************************************************)
(* Properties of Summarizer.SummarizeMessages (checked under SpecSum)      *)
(***************************************************************************)
\* the messages of round i of the input: its user message and what follows
RoundMsgs(msgs, i) ==
  SubSeq(msgs, UserIdx(msgs)[i], RoundEnd(msgs, UserIdx(msgs), i) - 1)

\* part occurs in whole as a contiguous run
ContainsRun(whole, part) ==
  \E p \in 1 .. Len(whole) - Len(part) + 1 :
    SubSeq(whole, p, p + Len(part) - 1) = part

\* C8: if Estimate(history) <= token_limit, Summarize returns the history
\* unchanged (same messages, same order) and makes no model call.
C8_NoOpWithinLimit ==
  (sumPc = "done" /\ EstimateTokens(sumIn, encOK) <= tokenLimit)
  => (sumOut = sumIn /\ sumCalls = 0)

C8_Witness ==
  /\ sumPc = "done"
  /\ EstimateTokens(sumIn, encOK) = tokenLimit
  /\ \E i \in 1 .. Len(UserIdx(sumIn)) : Len(ExecMsgs(sumIn, UserIdx(sumIn), i)) > 0
  /\ sumOut = sumIn

\* C9: when the summarization call for a round of an over-budget history
\* fails, that round is left unmodified: its leading user message and all of
\* its assistant and tool messages appear unchanged and in order in the output.
C9_FailedRoundUnmodified ==
  sumPc = "done"
  => \A i \in DOMAIN sumOuts :
       sumOuts[i] = SummaryFailed => ContainsRun(sumOut, RoundMsgs(sumIn, i))

\* what round j contributes to the output: its user message, and a summary
\* message when its summary call was made and succeeded
Produced(j) ==
  IF j \in DOMAIN sumOuts /\ sumOuts[j] # SummaryFailed THEN 2 ELSE 1

RECURSIVE ProducedBefore(_)
ProducedBefore(i) == IF i <= 1 THEN 0 ELSE ProducedBefore(i - 1) + Produced(i - 1)

\* C10: for every round of an over-budget history that has messages after
\* its leading user message and whose summary call succeeds, the output holds
\* the leading user message unchanged, immediately followed by exactly one
\* user-role message with content "[Execution Summary]\n\n" + summary (the
\* next message, if any, is the next round's leading user message), and none
\* of the round's assistant or tool messages.
C10_SummarizedRoundReplaced ==
  sumPc = "done"
  => \A i \in DOMAIN sumOuts :
       sumOuts[i] # SummaryFailed =>
         LET p == 2 + ProducedBefore(i)
             ui == UserIdx(sumIn)
         IN  /\ p + 1 <= Len(sumOut)
             /\ sumOut[p] = sumIn[ui[i]]
             /\ sumOut[p + 1] =
                  [Role |-> "user",
                   Content |-> "[Execution Summary]\n\n" \o sumOuts[i],
                   Thinking |-> "", ToolCalls |-> <<>>, ToolCallID |-> "",
                   Name |-> ""]
             /\ IF i < Len(ui)
                  THEN p + 2 <= Len(sumOut) /\ sumOut[p + 2] = sumIn[ui[i + 1]]
                  ELSE Len(sumOut) = p + 1
             /\ \A k \in 1 .. Len(sumOut) :
                  /\ sumOut[k].Role \notin {"assistant", "tool"}
                  /\ \A n \in 1 .. Len(ExecMsgs(sumIn, ui, i)) :
                       sumOut[k] # ExecMsgs(sumIn, ui, i)[n]

C10_Witness ==
  /\ sumPc = "done"
  /\ \E i, j \in DOMAIN sumOuts :
       /\ i < j
       /\ sumOuts[i] = SummaryFailed
       /\ sumOuts[j] \in Summaries
       /\ sumOut[Len(sumOut)] = SummaryMessage(sumOuts[j])

\* the history holds nothing but its first message and user messages
OnlyUserMessages(msgs) == \A k \in 2 .. Len(msgs) : msgs[k].Role = "user"

\* C11: a history that contains no assistant or tool messages (the system
\* message followed by zero or more user messages, in particular by exactly
\* one) is returned unchanged by Summarize whatever its token count, and no
\* model call is made for it.
C11_UserOnlyHistoryUnchanged ==
  (sumPc = "done" /\ OnlyUserMessages(sumIn))
  => (sumOut = sumIn /\ sumCalls = 0)

C11_Witness ==
  /\ sumPc = "done"
  /\ OnlyUserMessages(sumIn)
  /\ Len(sumIn) = 2
  /\ EstimateTokens(sumIn, encOK) > tokenLimit
  /\ sumOut = sumIn /\ sumCalls = 0

\* the positions of the output at which this call put a summary message
SummaryPositions ==
  {2 + ProducedBefore(i) + 1 : i \in {j \in DOMAIN sumOuts : sumOuts[j] # SummaryFailed}}

\* the messages of seq at the positions outside skip, in order
RECURSIVE Without(_, _, _)
Without(seq, skip, k) ==
  IF k > Len(seq) THEN <<>>
  ELSE IF k \in skip THEN Without(seq, skip, k + 1)
  ELSE <<seq[k]>> \o Without(seq, skip, k + 1)

IsUser(m) == m.Role = "user"

\* C12: for every over-budget history, the output of Summarize starts with
\* the input's first (system) message and contains every user message of the
\* input exactly once, unchanged and in the same relative order, whether the
\* per-round summary calls succeed or fail: the output without the summary
\* messages this call produced holds the input's user messages, each
\* occurrence once and in order.
C12_UserMessagesPreserved ==
  (sumPc = "done" /\ EstimateTokens(sumIn, encOK) > tokenLimit)
  => /\ sumOut[1] = sumIn[1]
     /\ SelectSeq(Without(sumOut, SummaryPositions, 1), IsUser)
          = SelectSeq(sumIn, IsUser)

C12_Witness ==
  /\ sumPc = "done"
  /\ EstimateTokens(sumIn, encOK) > tokenLimit
  /\ Len(SelectSeq(sumIn, IsUser)) >= 2
  /\ \E i, j \in DOMAIN sumOuts :
       sumOuts[i] = SummaryFailed /\ sumOuts[j] \in Summaries
  /\ Len(sumOut) < Len(sumIn)

(***************************************************************************)
(* Properties of a foreground BashTool.Execute (checked under SpecFg)      *)
(***************************************************************************)
\* C13: every RunForeground result satisfies success = (exit_code == 0) and
\* carries an error exactly when success is false, for every outcome: natural
\* exit, timeout, cancellation, and a timeout or cancellation that coincides
\* with the process exiting on its own; a process that exits on its own with
\* code c is reported with exit_code = c.
C13_ResultConsistent ==
  (fgPc = "done" /\ fgCause # "none")
  => /\ fgResult.Success <=> (fgResult.ExitCode = 0)
     /\ (fgResult.Error # "") <=> ~fgResult.Success
     /\ (fgCause = "done" /\ selfExit) => fgResult.ExitCode = procStatus.code

\* C14: whenever RunForeground ends because of a timeout or a cancellation,
\* it reports success = false with exit_code equal to the sentinel -1 and an
\* error naming the cause, under every interleaving of the timer, the
\* cancellation signal and the process's own exit.
C14_SentinelOnTimeoutOrCancel ==
  (fgPc = "done" /\ fgCause \in {"cancel", "timeout"})
  => /\ ~fgResult.Success
     /\ fgResult.ExitCode = -1
     /\ fgResult.Error =
          (IF fgCause = "cancel" THEN "command cancelled: context canceled"
           ELSE "command timed out after " \o ToString(fgTimeout) \o " seconds")

\* C15: cancellation never leaves a foreground subprocess running: whenever
\* RunForeground is ended by a timeout or by the cancellation signal, it
\* force-kills the subprocess and returns a result only once the subprocess
\* is no longer running, also when the signal has fired before the spawning
\* goroutine has finished starting the process.
C15_NoSubprocessLeftRunning ==
  (fgCause \in {"cancel", "timeout"} /\ fgPc \in {"done", "panicked"})
  => /\ fgPc = "done"
     /\ fgResult.returned
     /\ proc \in {"exited", "reaped"}
     /\ gPc # "start"

\* the requested timeout in tenths of a second
RequestedTenths(v) == IF v.kind = "int" THEN 10 * v.val ELSE v.tenths
IsNumber(v) == v.kind \in {"int", "float"}
Spawned == fgPc \notin {"idle", "call"} /\ fgArgs.command # ""

\* C16 (as stated): the timeout RunForeground applies always lies in
\* [1, 600] seconds: a requested value inside that range is applied as given,
\* and a value that is absent or outside the range is replaced by the
\* default 120.
C16_TimeoutInRangeElseDefault ==
  Spawned
  => LET v == fgArgs.timeout
         inside == /\ IsNumber(v)
                   /\ RequestedTenths(v) >= 10 * 1
                   /\ RequestedTenths(v) <= 10 * 600
     IN  /\ fgTimeout \in 1 .. 600
         /\ inside => 10 * fgTimeout = RequestedTenths(v)
         /\ ~inside => fgTimeout = 120

\* C16 (amended): the timeout RunForeground applies always lies in [1, 600]
\* seconds: a requested number inside that range is applied, cut down to
\* whole seconds; a number above 600 is replaced by 600; a value that is
\* absent, not a number or below 1 is replaced by the default 120.
C16_TimeoutClampedAbove ==
  Spawned
  => LET v == fgArgs.timeout
         t == RequestedTenths(v)
     IN  /\ fgTimeout \in 1 .. 600
         /\ (IsNumber(v) /\ t >= 10 * 1 /\ t <= 10 * 600)
              => (10 * fgTimeout <= t /\ t < 10 * (fgTimeout + 1))
         /\ (IsNumber(v) /\ t > 10 * 600) => fgTimeout = 600
         /\ (~IsNumber(v) \/ t < 10 * 1) => fgTimeout = 120

C16_Witness ==
  /\ fgPc = "done" /\ fgCause = "done"
  /\ fgArgs.timeout.kind = "int" /\ fgArgs.timeout.val > 600
  /\ fgTimeout = 600
  /\ fgResult.Success

(***************************************************************************)
(* Properties of the background shells (checked under SpecBg)              *)
(***************************************************************************)
\* a background start has just returned success
StartReturned(r) == r.tool = "bash" /\ r.Success

\* C17: a successful StartBackground returns {success: true, job_id} without
\* waiting for the command to finish, and at the moment it returns the job
\* is already in the registry under that id with status running (or a later
\* status set by its monitor), so a ReadBackgroundOutput on that id issued
\* right after the return never fails with "not found".
C17_RegisteredWhenStartReturns ==
  [][ /\ StartReturned(bgResult')
         => LET id == bgResult'.BashID
            IN  /\ id \in BashIDs
                /\ Len(jobs') = Len(jobs) + 1
                /\ id \in DOMAIN shells'
                /\ shells'[id] = Len(jobs')
                /\ jobs'[Len(jobs')].BashID = id
                /\ jobs'[Len(jobs')].Status
                     \in {"running", "completed", "failed", "error"}
                /\ jobs'[Len(jobs')].proc = "running"
      /\ \A t \in Callers :
           (StartReturned(bgResult) /\ callers[t].pc = "idle"
              /\ callers'[t].pc # "idle" /\ callers'[t].id = bgResult.BashID)
           => (callers'[t].pc = "new" /\ callers'[t].shell = Len(jobs))
    ]_vars

C17_Witness ==
  /\ StartReturned(bgResult)
  /\ Len(jobs) = 2
  /\ DOMAIN shells = BashIDs
  /\ shells[bgResult.BashID] = 2
  /\ jobs[2].Status = "running" /\ jobs[2].proc = "running"

\* C18: StartBackground gives every job a fresh unique id: the id differs
\* from the id of every job currently in the registry, so registering a new
\* job never replaces an existing registry entry and never makes a
\* still-running job unreachable by its id.
C18_FreshUniqueId ==
  [][ StartReturned(bgResult')
      => /\ bgResult'.BashID \notin DOMAIN shells
         /\ \A k \in DOMAIN shells : k \in DOMAIN shells' /\ shells'[k] = shells[k]
         /\ \A j \in 1 .. Len(jobs) :
              (jobs[j].proc = "running" /\ \E k \in DOMAIN shells : shells[k] = j)
              => \E k \in DOMAIN shells' : shells'[k] = j
    ]_vars

\* thread t takes its GetNewOutput step
TakesNewOutput(t) == callers[t].pc = "new" /\ callers'[t].pc # "new"

\* C19: for one background job, under any interleaving of the monitor's
\* appends with unfiltered ReadBackgroundOutput calls (including concurrent
\* readers sharing the single cursor), the reads return consecutive,
\* non-overlapping segments of output_lines in original order: no line is
\* returned twice, none is skipped, 0 <= read_cursor <= length(output_lines)
\* always holds, and a read that follows another with no new output in
\* between returns empty output.
C19_ReadsAreConsecutiveSegments ==
  /\ [](\A j \in 1 .. Len(jobs) :
          /\ 0 <= jobs[j].LastReadIndex
          /\ jobs[j].LastReadIndex <= Len(jobs[j].OutputLines)
          /\ ~filteredRead[j]
               => delivered[j] = SubSeq(jobs[j].OutputLines, 1, jobs[j].LastReadIndex))
  /\ [][ \A t \in Callers :
           (TakesNewOutput(t) /\ callers[t].filter = "")
           => LET j == callers[t].shell
              IN  /\ callers'[t].lines =
                       [i \in 1 .. Len(jobs[j].OutputLines) - jobs[j].LastReadIndex |->
                          jobs[j].OutputLines[jobs[j].LastReadIndex + i]]
                  /\ (jobs[j].LastReadIndex = Len(jobs[j].OutputLines))
                       => callers'[t].lines = <<>>
       ]_vars

C19_Witness ==
  /\ Len(jobs) = 1
  /\ ~filteredRead[1]
  /\ Len(jobs[1].OutputLines) = 2
  /\ callers["t1"].op = "output" /\ callers["t1"].pc = "ret"
  /\ callers["t2"].op = "output" /\ callers["t2"].pc = "ret"
  /\ callers["t1"].lines = <<jobs[1].OutputLines[2]>>
  /\ callers["t2"].lines = <<jobs[1].OutputLines[1]>>
  /\ delivered[1] = jobs[1].OutputLines

\* the lines after the cursor of shell s whose tag is tag, in order
RECURSIVE NewTagged(_, _, _)
NewTagged(s, tag, k) ==
  IF k > Len(s.OutputLines) THEN <<>>
  ELSE (IF s.OutputLines[k].tag = tag THEN <<s.OutputLines[k]>> ELSE <<>>)
       \o NewTagged(s, tag, k + 1)

RECURSIVE AllNew(_, _)
AllNew(s, k) ==
  IF k > Len(s.OutputLines) THEN <<>>
  ELSE <<s.OutputLines[k]>> \o AllNew(s, k + 1)

\* C20: for ReadBackgroundOutput with a filter pattern: when the pattern
\* compiles, the call returns exactly the new lines that match it, in order;
\* when it does not compile, the call still succeeds and returns all new
\* lines unfiltered; in both cases the cursor advances past every new line,
\* so a line that was filtered out is never returned by a later read.
C20_FilteredRead ==
  [][ \A t \in Callers :
        /\ (TakesNewOutput(t) /\ callers[t].op = "output" /\ callers[t].filter # "")
           => LET j == callers[t].shell
                  s == jobs[j]
              IN  /\ callers[t].filter = "a"
                       => callers'[t].lines = NewTagged(s, "a", s.LastReadIndex + 1)
                  /\ callers[t].filter = "("
                       => callers'[t].lines = AllNew(s, s.LastReadIndex + 1)
                  /\ jobs'[j].LastReadIndex = Len(s.OutputLines)
                  /\ jobs'[j].OutputLines = s.OutputLines
        /\ (callers[t].pc = "ret" /\ callers'[t].pc = "idle"
              /\ callers[t].filter # "")
           => /\ bgResult'.tool = "bash_output"
              /\ bgResult'.Success
              /\ bgResult'.Stdout = callers[t].lines
        /\ TakesNewOutput(t)
           => \A i \in 1 .. Len(callers'[t].lines) :
                callers'[t].lines[i].n > jobs[callers[t].shell].LastReadIndex
    ]_vars

C20_Witness ==
  /\ bgResult.tool = "bash_output" /\ bgResult.Success
  /\ Len(jobs) = 1
  /\ filteredRead[1]
  /\ Len(jobs[1].OutputLines) = 2
  /\ jobs[1].LastReadIndex = 2
  /\ bgResult.Stdout = <<jobs[1].OutputLines[1]>>
  /\ delivered[1] = <<jobs[1].OutputLines[1]>>
  /\ jobs[1].OutputLines[2].tag = "b"

\* thread t returns from a successful BashOutputTool.Execute
OutputReturns(t) == callers[t].pc = "ret" /\ callers'[t].pc = "idle"

\* the status a tool result carries: ToolResult has no field for it
ResultStatus(r) == IF "Status" \in DOMAIN r THEN r.Status ELSE ""

\* C21 (as stated): a successful ReadBackgroundOutput reports, together with
\* the new lines, the job's recorded exit code (0 when none has been recorded
\* yet) and the job's current status, so that the caller can tell a running
\* job from one that has completed, failed or hit a monitor error.
C21_ReadReportsExitCodeAndStatus ==
  [][ \A t \in Callers :
        OutputReturns(t)
        => LET sh == jobs[callers[t].shell]
           IN  /\ bgResult'.Success
               /\ bgResult'.Stdout = callers[t].lines
               /\ bgResult'.ExitCode = (IF sh.ExitCode.set THEN sh.ExitCode.val ELSE 0)
               /\ ResultStatus(bgResult') = sh.Status
    ]_vars

\* C21 (amended): a successful ReadBackgroundOutput reports, together with
\* the new lines and the job id, the job's exit code as it is recorded when
\* the result is built, 0 when none is recorded; the result carries no
\* status, and a running job reports the same exit code 0 as a job that
\* completed with exit code 0.
C21_ReadReportsExitCode ==
  [][ \A t \in Callers :
        OutputReturns(t)
        => LET sh == jobs[callers[t].shell]
           IN  /\ bgResult'.tool = "bash_output"
               /\ bgResult'.Success
               /\ bgResult'.Stdout = callers[t].lines
               /\ bgResult'.BashID = callers[t].id
               /\ bgResult'.ExitCode = (IF sh.ExitCode.set THEN sh.ExitCode.val ELSE 0)
               /\ ResultStatus(bgResult') = ""
               /\ sh.Status = "running" => bgResult'.ExitCode = 0
    ]_vars

\* a read of a job that is still running returned lines and exit code 0
C21_Witness ==
  /\ bgResult.tool = "bash_output" /\ bgResult.Success
  /\ Len(jobs) = 1
  /\ jobs[1].Status = "running" /\ ~jobs[1].ExitCode.set
  /\ bgResult.Stdout # <<>>
  /\ bgResult.ExitCode = 0

\* thread t returns from a successful BashKillTool.Execute
KillReturns(t) == callers[t].pc = "remove" /\ callers'[t].pc = "idle"

\* C22: a TerminateBackground on a job that is in the registry returns the
\* lines appended since the last read, force-kills the process if it is
\* still alive, leaves the job with status terminated and exit code -1 (also
\* when the job had already finished on its own with another exit code),
\* reports exit code -1 in its result, and removes the job from the
\* registry.
C22_TerminateLeavesTerminated ==
  [][ \A t \in Callers :
        /\ (callers[t].op = "kill" /\ TakesNewOutput(t))
           => callers'[t].lines = AllNew(jobs[callers[t].shell],
                                         jobs[callers[t].shell].LastReadIndex + 1)
        /\ KillReturns(t)
           => LET j == callers[t].shell
              IN  /\ bgResult'.tool = "bash_kill"
                  /\ bgResult'.Success
                  /\ bgResult'.Stdout = callers[t].lines
                  /\ jobs'[j].proc # "running"
                  /\ jobs'[j].Status = "terminated"
                  /\ jobs'[j].ExitCode = Code(-1)
                  /\ bgResult'.ExitCode = -1
                  /\ callers[t].id \notin DOMAIN shells'
    ]_vars

\* job j is in the registry m
InRegistry(m, j) == \E k \in DOMAIN m : m[k] = j

\* C23: after a TerminateBackground on a job id has returned, every later
\* ReadBackgroundOutput and TerminateBackground on that id fails with "not
\* found", as long as no new job is registered under the same id: the id is
\* absent when the call returns, only a StartBackground makes an absent id
\* present, and a call that looks up an absent id returns "not found".
C23_NotFoundAfterTerminate ==
  [][ /\ \A t \in Callers :
           /\ KillReturns(t) => callers[t].id \notin DOMAIN shells'
           /\ (callers[t].pc = "idle" /\ callers'[t].pc # "idle"
                 /\ callers'[t].id \notin DOMAIN shells)
              => callers'[t].pc = "list"
           /\ (callers[t].pc = "list" /\ callers'[t] # callers[t])
              => /\ callers'[t].pc = "idle"
                 /\ ~bgResult'.Success
                 /\ bgResult'.Error = "Shell not found"
      /\ \A id \in BashIDs :
           (id \notin DOMAIN shells /\ id \in DOMAIN shells')
           => (StartReturned(bgResult') /\ bgResult'.BashID = id)
    ]_vars

\* a call on the id of a terminated job has found nothing under that id
C23_Witness ==
  \E t \in Callers, j \in 1 .. Len(jobs) :
    /\ jobs[j].Status = "terminated"
    /\ callers[t].pc = "list"
    /\ callers[t].id = jobs[j].BashID
    /\ callers[t].id \notin DOMAIN shells

\* C24: ReadBackgroundOutput and TerminateBackground on an id that is not in
\* the registry return a failure result that lists the currently known job
\* ids; they never panic and change neither the registry nor any job's
\* output buffer, cursor, status or exit code.
C24_UnknownIdFailsWithoutEffect ==
  [][ \A t \in Callers :
        /\ (callers[t].pc = "idle" /\ callers'[t].pc = "list")
           => UNCHANGED <<jobs, shells>>
        /\ (callers[t].pc = "list" /\ callers'[t] # callers[t])
           => /\ callers'[t].pc = "idle"
              /\ bgResult'.tool = (IF callers[t].op = "output" THEN "bash_output"
                                   ELSE "bash_kill")
              /\ ~bgResult'.Success
              /\ bgResult'.Error = "Shell not found"
              /\ bgResult'.Available = DOMAIN shells
              /\ UNCHANGED <<jobs, shells>>
    ]_vars

\* a call on an unknown id failed while another job was in the registry
C24_Witness ==
  /\ ~bgResult.Success
  /\ bgResult.tool \in {"bash_output", "bash_kill"}
  /\ bgResult.Error = "Shell not found"
  /\ bgResult.Available # {}
  /\ bgResult.Available = DOMAIN shells
  /\ \E j \in 1 .. Len(jobs) : InRegistry(shells, j) /\ jobs[j].Status = "running"

\* C25: a background job leaves the registry only through
\* TerminateBackground: a job that finishes on its own (status completed,
\* failed or error) stays in the registry and readable, and no other step
\* kills it, changes its status or removes its registry entry.
C25_LeavesRegistryOnlyByTerminate ==
  [][ \A j \in 1 .. Len(jobs) :
        (InRegistry(shells, j) /\ ~InRegistry(shells', j))
        => \E t \in Callers : KillReturns(t) /\ callers[t].shell = j
    ]_vars

\* thread t takes a step of a call that has looked its shell up
WorksOnShell(t) ==
  /\ callers[t].pc \in {"new", "ret", "term", "remove"}
  /\ callers'[t] # callers[t]

\* C33: termination cannot race with a caller's stale reference: under any
\* interleaving of ReadBackgroundOutput and TerminateBackground calls on the
\* same id, no call reads output from, advances the cursor of, kills, or
\* reports success for a job after another TerminateBackground has removed
\* that job from the registry.
C33_NoStaleReference ==
  [][ \A t \in Callers :
        WorksOnShell(t)
        => /\ InRegistry(shells, callers[t].shell)
           /\ callers[t].id \in DOMAIN shells
           /\ shells[callers[t].id] = callers[t].shell
    ]_vars

\* the monitor of job j ends on end-of-file
MonitorEnds(j) ==
  /\ jobs[j].mon = "read" /\ jobs'[j].mon = "end"
  /\ jobs'[j].Status # "error"

\* C35: when the merged stream of a background job that has not been
\* terminated reaches end-of-file, the monitor waits for the process to
\* exit, records its real exit code, and sets the status to completed if
\* that code is 0 and to failed otherwise; a job never has status completed
\* with a nonzero exit code or status failed with exit code 0.
C35_ExitCodeAndStatusAgree ==
  /\ [](\A j \in 1 .. Len(jobs) :
          /\ jobs[j].Status = "completed" => jobs[j].ExitCode = Code(0)
          /\ jobs[j].Status = "failed"
               => (jobs[j].ExitCode.set /\ jobs[j].ExitCode.val # 0))
  /\ [][ \A j \in 1 .. Len(jobs) :
           (MonitorEnds(j) /\ jobs[j].Status = "running")
           => /\ jobs[j].proc = "exited"
              /\ jobs'[j].ExitCode = Code(jobs[j].code)
              /\ jobs'[j].Status = (IF jobs[j].code = 0 THEN "completed"
                                    ELSE "failed")
       ]_vars

\* the monitor has recorded a nonzero exit code of a job that ended by itself
C35_Witness ==
  /\ Len(jobs) = 1
  /\ jobs[1].mon = "end"
  /\ jobs[1].proc = "exited"
  /\ jobs[1].code = 7
  /\ jobs[1].Status = "failed"
  /\ jobs[1].ExitCode = Code(7)

\* C36: terminated is a final status: once TerminateBackground has set a
\* job's status to terminated with exit code -1, no later action, in
\* particular the job's monitor observing end-of-file of the killed process,
\* changes that job's status or exit code; in general a job's status never
\* returns to running once it has left it.
C36_TerminatedIsFinal ==
  [][ \A j \in 1 .. Len(jobs) :
        /\ jobs[j].Status = "terminated"
           => /\ jobs'[j].Status = "terminated"
              /\ jobs'[j].ExitCode = Code(-1)
        /\ jobs[j].Status # "running" => jobs'[j].Status # "running"
    ]_vars

\* thread t takes the Terminate step of its bash_kill
Kills(t) == callers[t].pc = "term" /\ callers'[t].pc = "remove"

\* C37: when TerminateBackground returns, every line that the job's monitor
\* has appended to output_lines up to the moment the process was killed has
\* been returned either by an earlier ReadBackgroundOutput or by this
\* TerminateBackground: no line appended between Terminate's drain of the
\* buffer and its kill of the process is lost.
C37_NoLineLostBeforeKill ==
  [][ \A t \in Callers :
        Kills(t)
        => LET sh == jobs[callers[t].shell]
           IN  sh.LastReadIndex = Len(sh.OutputLines)
    ]_vars

(***************************************************************************)
(* Properties of Agent.Run (checked under Spec)                            *)
(***************************************************************************)
\* C1: for every max_steps N >= 0, when every model response requests at
\* least one tool call and no model call fails, Run makes exactly N model
\* calls and then returns the budget-exceeded message with no error.
C1_BudgetExceededAfterNSteps ==
  (apc \in {"done", "panicked"} /\ allToolResp)
  => /\ apc = "done"
     /\ modelCalls = maxSteps
     /\ runRet = [val |-> BudgetMessage(maxSteps), err |-> NoError]

\* C2: whenever a model response holds no tool calls, Run appends the
\* assistant message and returns the response's content with no error,
\* executing no tool and making no further model call; a first response
\* without tool calls ends Run on the first step.
C2_NoToolCallsEndsRun ==
  [][ /\ (modelCalls' = modelCalls + 1 /\ resp'.kind = "ok"
            /\ resp'.ToolCalls = <<>>)
         => /\ apc' = "done"
            /\ messages' = Append(messages,
                 [Role |-> "assistant", Content |-> resp'.Content,
                  Thinking |-> resp'.Thinking, ToolCalls |-> <<>>,
                  ToolCallID |-> "", Name |-> ""])
            /\ runRet' = [val |-> resp'.Content, err |-> NoError]
            /\ toolExecs' = toolExecs
            /\ step' = step
            /\ (modelCalls' = 1 => step' = 0)
      /\ (apc = "done" /\ runs' = runs)
         => (apc' = "done" /\ modelCalls' = modelCalls /\ toolExecs' = toolExecs)
    ]_vars

C2_Witness ==
  /\ apc = "done" /\ resp.kind = "ok" /\ resp.ToolCalls = <<>>
  /\ modelCalls = 1 /\ step = 0 /\ toolExecs = 0
  /\ runRet = [val |-> "done", err |-> NoError]
  /\ messages[Len(messages)].Role = "assistant"

\* C3: when the model call of a step fails, Run returns that error at once:
\* no assistant or tool message is appended after the failure, no tool is
\* executed and no further model call is made.
C3_ModelFailureReturnsError ==
  [][ /\ (modelCalls' = modelCalls + 1 /\ resp'.kind = "fail")
         => /\ apc' = "done"
            /\ runRet'.err = resp'.err
            /\ runRet'.err # NoError
            /\ messages' = messages
            /\ toolExecs' = toolExecs
      /\ (apc = "done" /\ resp.kind = "fail" /\ runs' = runs)
         => /\ apc' = "done"
            /\ modelCalls' = modelCalls
            /\ toolExecs' = toolExecs
            /\ \A k \in Len(messages) + 1 .. Len(messages') :
                 messages'[k].Role = "user"
    ]_vars

C3_Witness ==
  /\ apc = "done" /\ resp.kind = "fail"
  /\ modelCalls = 2 /\ toolExecs >= 1
  /\ runRet.err = resp.err
  /\ messages[Len(messages)].Role = "tool"

\* C4: a fault during the execution of a registered tool (an error return, a
\* panic, a missing result) never aborts Run: Run appends a tool-role failure
\* message for that call and goes on with the next tool call or step.
C4_ToolFaultNeverAbortsRun ==
  [][ (toolExecs' = toolExecs + 1 /\ lastTool' \in {"err", "panic", "nil"})
      => /\ apc' \in {"tools", "loop"}
         /\ Len(messages') = Len(messages) + 1
         /\ messages'[Len(messages')].Role = "tool"
         /\ messages'[Len(messages')].ToolCallID = resp.ToolCalls[tcIdx].ID
    ]_vars

\* the tool calls of the current response that Run has dealt with
CallsDone == IF apc = "tools" THEN tcIdx - 1 ELSE Len(resp.ToolCalls)

\* C26: Run executes the tool calls of one model response one at a time, in
\* the order the model returned them, and appends exactly one tool-role
\* message per call in that same order, each echoing the call's id and tool
\* name, before the next model call is made; no two tool executions and no
\* tool execution and model call overlap.
C26_ToolCallsInOrder ==
  /\ []((apc \in {"tools", "loop"} /\ resp.ToolCalls # <<>>)
        => LET base == Len(messages) - CallsDone
           IN  /\ base >= 1
               /\ messages[base].Role = "assistant"
               /\ messages[base].ToolCalls = resp.ToolCalls
               /\ \A i \in 1 .. CallsDone :
                    /\ messages[base + i].Role = "tool"
                    /\ messages[base + i].ToolCallID = resp.ToolCalls[i].ID
                    /\ messages[base + i].Name = resp.ToolCalls[i].Name)
  /\ [][ /\ toolExecs' > toolExecs
            => /\ apc = "tools"
               /\ toolExecs' = toolExecs + 1
               /\ modelCalls' = modelCalls
         /\ modelCalls' > modelCalls
            => /\ apc = "generate"
               /\ modelCalls' = modelCalls + 1
               /\ toolExecs' = toolExecs
         /\ (apc = "tools" /\ apc' \in {"tools", "loop"} /\ tcIdx' # tcIdx)
            => /\ tcIdx' = tcIdx + 1
               /\ resp' = resp
               /\ Len(messages') = Len(messages) + 1
               /\ SubSeq(messages', 1, Len(messages)) = messages
         /\ (apc = "tools" /\ apc' = "loop") => tcIdx = Len(resp.ToolCalls)
       ]_vars

\* both tool calls of a response have been dealt with, in order
C26_Witness ==
  /\ apc = "loop"
  /\ Len(resp.ToolCalls) = 2
  /\ toolExecs = 2
  /\ messages[Len(messages) - 1].ToolCallID = "c1"
  /\ messages[Len(messages)].ToolCallID = "c2"
  /\ messages[Len(messages) - 1].Role = "tool"
  /\ messages[Len(messages) - 2].Role = "assistant"

\* C27: for a tool call whose name is not in the agent's tool set, Run
\* invokes no tool and appends a tool-role message that carries the call's
\* id and the content "Error: Unknown tool: <name>", then continues with the
\* next tool call.
C27_UnknownToolSynthesizedFailure ==
  [][ (apc = "tools" /\ resp.ToolCalls[tcIdx].Name \notin ToolNames
         /\ <<apc, tcIdx, messages>>' # <<apc, tcIdx, messages>>)
      => LET tc == resp.ToolCalls[tcIdx]
         IN  /\ toolExecs' = toolExecs
             /\ modelCalls' = modelCalls
             /\ messages' = Append(messages,
                  [Role |-> "tool", Content |-> "Error: Unknown tool: " \o tc.Name,
                   Thinking |-> "", ToolCalls |-> <<>>, ToolCallID |-> tc.ID,
                   Name |-> tc.Name])
             /\ tcIdx' = tcIdx + 1
             /\ IF tcIdx < Len(resp.ToolCalls)
                  THEN apc' = "tools" /\ step' = step
                  ELSE apc' = "loop" /\ step' = step + 1
    ]_vars

\* an unknown first call has been answered and the second call is next
C27_Witness ==
  /\ apc = "tools"
  /\ tcIdx = 2
  /\ lastTool = "unknown"
  /\ toolExecs = 0
  /\ messages[Len(messages)].Content = "Error: Unknown tool: nope"
  /\ messages[Len(messages)].ToolCallID = "c1"

\* C28: in every reachable state of an agent the history is non-empty, its
\* first message is the system message created at construction, unchanged,
\* and no other message of the history has role system.
C28_SystemMessageFirstAndOnly ==
  /\ Len(messages) >= 1
  /\ messages[1] = [Role |-> "system", Content |-> SystemPrompt, Thinking |-> "",
                    ToolCalls |-> <<>>, ToolCallID |-> "", Name |-> ""]
  /\ \A k \in 2 .. Len(messages) : messages[k].Role # "system"

\* a summarization has rewritten the history of a Run
C28_Witness ==
  /\ apc = "generate"
  /\ sumCalls >= 1
  /\ sumOut # sumIn
  /\ messages = sumOut
  /\ Len(messages) >= 3

\* C29: when the caller's cancellation signal fires while Run is in
\* progress, Run returns promptly with a cancellation-kind error: after the
\* signal has fired, Run starts no further tool execution (not even the
\* remaining tool calls of the current response) and gets no further model
\* response.
C29_CancelStopsRun ==
  [][ runCtxDone
      => /\ toolExecs' = toolExecs
         /\ modelCalls' > modelCalls => resp'.kind = "fail"
    ]_vars

\* C30: a failure of the logger (failing to open the log of a run, or
\* failing to write a record) is not fatal to the loop: Run still performs
\* its steps and returns the same result as it does when logging succeeds,
\* so no Run returns the logger's error and a Run with a positive step
\* budget makes at least one model call.
C30_LoggerFailureNotFatal ==
  (apc = "done" /\ runs >= 1)
  => /\ runRet.err # LogError
     /\ maxSteps >= 1 => modelCalls >= 1

\* from message k on, every assistant message is followed by one tool
\* message per tool call, in call order and with the call's id, and no tool
\* message stands anywhere else
RECURSIVE WellFormedFrom(_, _)
WellFormedFrom(msgs, k) ==
  IF k > Len(msgs) THEN TRUE
  ELSE IF msgs[k].Role = "tool" THEN FALSE
  ELSE IF msgs[k].Role = "assistant"
    THEN LET n == Len(msgs[k].ToolCalls)
         IN  /\ k + n <= Len(msgs)
             /\ \A i \in 1 .. n :
                  /\ msgs[k + i].Role = "tool"
                  /\ msgs[k + i].ToolCallID = msgs[k].ToolCalls[i].ID
             /\ WellFormedFrom(msgs, k + n + 1)
  ELSE WellFormedFrom(msgs, k + 1)

\* C38: whenever Run calls the model or returns, the history is well-formed
\* for correlation by id: every tool-role message is preceded, with no user
\* message in between, by an assistant message that holds a tool call with
\* the same id, and every assistant message with n tool calls is followed by
\* exactly n tool messages in call order; this also holds after
\* summarization has rewritten the history, whether its summary calls
\* succeeded or failed.
C38_HistoryWellFormed ==
  (apc \in {"generate", "done"}) => WellFormedFrom(messages, 1)

\* Run is about to call the model a second time, after two tool calls
C38_Witness ==
  /\ apc = "generate"
  /\ modelCalls = 1
  /\ Len(resp.ToolCalls) = 2
  /\ Len(messages) >= 4
  /\ messages[Len(messages)].Role = "tool"
  /\ messages[Len(messages)].ToolCallID = "c2"

(***************************************************************************)
(* Properties of NewAgent                                                  *)
(***************************************************************************)
\* C31: if the workspace directory cannot be created, constructing the
\* agent fails with an error instead of returning a usable agent
C31_NoWorkspaceIsHardFailure ==
  (naPc = "done" /\ ~naIn.mkdirOK) => (naOut.err # NoError /\ naOut.agent.nil)

(***************************************************************************)
(* Properties of the locks of the background shells                        *)
(***************************************************************************)
\* the shells whose lock thread t holds
HeldShells(t) == {j \in DOMAIN shellMu : shellMu[j] = t}

\* thread t is at a Lock()
AtLock(t) == Busy(t) /\ Instr(t).do = "lock"

\* C32: every read and every write of a job's output_lines, read_cursor,
\* status and exit_code happens while that job's lock is held
C32_ShellFieldsUnderShellLock ==
  \A t \in DOMAIN lt :
    (Busy(t) /\ Instr(t).do = "rw" /\ Instr(t).on = "shell")
      => shellMu[lt[t].shell] = t

\* C34: no thread holds the registry lock while it holds or waits for a job
\* lock, and no thread holds two job locks at once; hence a thread that
\* holds a lock never waits for another one: whoever holds the registry
\* lock is about to use the map or to release the lock, whoever holds a
\* job lock is about to use the job or to release its lock, and every
\* waiting thread waits for a thread that can go on
C34_NoNestedLocks ==
  \A t \in DOMAIN lt :
    /\ regMu = t => HeldShells(t) = {} /\ ~AtLock(t)
    /\ Cardinality(HeldShells(t)) <= 1
    /\ HeldShells(t) # {} => regMu # t /\ ~AtLock(t)
    /\ regMu = t => Busy(t) /\ Instr(t).on = "reg"
    /\ \A j \in HeldShells(t) :
         Busy(t) /\ Instr(t).on = "shell" /\ lt[t].shell = j
    /\ AtLock(t) =>
         \/ ENABLED Acquire(t)
         \/ \E u \in DOMAIN lt \ {t} :
              /\ u = IF Instr(t).on = "reg" THEN regMu
                     ELSE shellMu[lt[t].shell]
              /\ ENABLED (Release(u) \/ ThreadAccesses(u))

\* a background start works on the registry while a bash_output reads the
\* output of job 1, the monitor of job 2 writes to its job, and the
\* monitor of job 1 waits for the reader
C34_Witness ==
  /\ lt # <<>>
  /\ regMu = "t1" /\ lt["t1"].code = ManagerMethod
  /\ shellMu[1] = "t2" /\ lt["t2"].code = OutputCode
  /\ shellMu[2] = "m2"
  /\ AtLock("m1")

====
